---- MODULE Spec2Model ----
(***************************************************************************)
(* Model of the credential cache (AkeneoAuth.getClientGrant) and of the    *)
(* request executor (AkeneoApi.request) of gradientedge/akeneo-utils.      *)
(*                                                                         *)
(* JavaScript scheduling is modelled explicitly: `mq` is the microtask     *)
(* queue (FIFO), a promise that is still pending keeps the calls awaiting  *)
(* it in registration order (`reactions`), and network completions and     *)
(* timers are macrotasks, which run only when the microtask queue is       *)
(* empty.                                                                  *)
(***************************************************************************)
EXTENDS Integers, Sequences, FiniteSets, TLC

----------------------------------------------------------------------------
\* Bounds of the model

\* number of direct getClientGrant() callers
MaxCalls == 3
\* number of AkeneoApi.request() calls
MaxReqs == 2
\* the wall clock runs from 0 to MaxTime (seconds)
MaxTime == 3
\* largest maxRetries value of a retry configuration
MaxRetriesBound == 2
\* the lookahead window of the instance (config.refreshIfWithinSecs)
refreshIfWithinSecs == 2
\* expires_in values the token endpoint may answer with
ShortExpiresIn == 1
LongExpiresIn == 4
\* delayMs of the plain retry configurations (milliseconds)
BaseDelayMs == 300
\* the retry configuration given as a method level override
OverrideMaxRetries == 4
OverrideDelayMs == 500
\* delayMs of the retry configuration with jitter
JitterDelayMs == 2
\* the Retry-After value of a 429 response that carries the header (seconds)
RetryAfterSecs == 2

----------------------------------------------------------------------------
\* Identifiers

ReqIds == 1..MaxReqs
DirectCalls == 1..MaxCalls
\* the getClientGrant() call made by request r (getRequestOptions)
CallOf(r) == MaxCalls + r
CallIds == 1..(MaxCalls + MaxReqs)
\* promise 0 is the initial Promise.resolve(); promise p > 0 is the promise
\* returned by the p-th invocation of AkeneoAuthApi.getClientGrant
PromiseIds == 0..(MaxCalls + MaxReqs)
ExpiresInValues == {ShortExpiresIn, LongExpiresIn}

NoGrant == [id |-> 0, expiresAt |-> 0]
NoResult == [kind |-> "none", grant |-> NoGrant, via |-> "none", of |-> 0]

VARIABLES
  now,           \* wall clock, seconds
  grant,         \* AkeneoAuth.grant (NoGrant when undefined)
  grantPromise,  \* AkeneoAuth.grantPromise: id of the promise it refers to
  nExch,         \* number of invocations of AkeneoAuthApi.getClientGrant
  pstate,        \* promise id -> "unused" | "pending" | "fulfilled" | "rejected"
  presp,         \* promise id -> expires_in of the grant response (0: none)
  pstart,        \* promise id -> the grant held when the exchange was started
  reactions,     \* promise id -> calls awaiting the pending promise, in order
  mq,            \* microtask queue: calls whose awaited promise has settled
  pc,            \* call id -> "idle" | "await1" | "await2" | "returned" | "rejected"
  awaiting,      \* call id -> promise the call awaits (or awaited last)
  result,        \* call id -> what the call resolved or rejected with
  early,         \* call id -> issued before any exchange had completed
  late,          \* call id -> issued when grantPromise was already rejected
  held           \* call id -> issued when a good grant was held and no
                 \* exchange was in flight

authVars == <<now, grant, grantPromise, nExch, pstate, presp, pstart,
              reactions, mq, pc, awaiting, result, early, late, held>>

VARIABLES
  retry,         \* AkeneoApi.retry: the retry configuration of the instance
  rpc,           \* request id -> "idle" | "grant" | "attempt" | "delay" |
                 \*               "returned" | "raised"
  optRetry,      \* request id -> options.retry (NoRetryConfig when undefined)
  retryCount,    \* request id -> local retryCount of request()
  lastError,     \* request id -> local lastError of request()
  attempts,      \* request id -> number of this.axios(requestConfig) calls
  lastResponse,  \* request id -> outcome of the latest transport call
  only500,       \* request id -> every transport call so far was answered 500
  raised,        \* request id -> the error request() threw
  configRetry,   \* config.retry given to the constructor of AkeneoApi
  retryConfig,   \* request id -> local retryConfig of request()
  delay,         \* request id -> local delay of request(), the latest one
  waited,        \* request id -> milliseconds spent in retry delays
  body,          \* request id -> the attempt whose response.data was returned
  n429,          \* request id -> number of transport calls answered 429
  optHeaders,    \* request id -> options.headers
  sentHeaders,   \* request id -> requestConfig.headers, sent with every attempt
  inflight,      \* request id -> transport calls started and not yet settled
  lastErrorAt,   \* request id -> the attempt whose error lastError holds
  raisedAt       \* request id -> the attempt whose error was thrown

reqVars == <<retry, rpc, optRetry, retryCount, lastError, attempts,
             lastResponse, only500, raised, configRetry, retryConfig, delay,
             waited, body, n429, optHeaders, sentHeaders, inflight,
             lastErrorAt, raisedAt>>

VARIABLES
  classified,    \* the error given to isRetryableError
  retryable,     \* what isRetryableError returned ("unknown" before the call)
  transformed,   \* what transformError returned (NoError before the call)
  thrown         \* what AkeneoAuthApi.post threw when the transport call
                 \* threw `classified` (NoError before the call)

errVars == <<classified, retryable, transformed, thrown>>

VARIABLES
  pages,         \* the pages of a result list as the server holds them, the
                 \* first one included
  response,      \* options.response of appendRemainingPages, which it mutates
  nextHref,      \* local nextHref of appendRemainingPages (0: undefined)
  ppc,           \* "idle" | "loop" | "done" | "failed"
  fetched,       \* the options of the follow-up requests issued, in order
  listOptions,   \* the options of the list call
  lpc            \* the list call: "idle" | "first" | "paging" | "returned" |
                 \* "raised"

pageVars == <<pages, response, nextHref, ppc, fetched, listOptions, lpc>>

VARIABLES
  apiConfig,     \* the configuration given to `new AkeneoApi`
  constructed,   \* "no" | "ok" | "threw": how the constructor ended
  ctorError      \* what the constructor threw (NoError when nothing)

ctorVars == <<apiConfig, constructed, ctorError>>

VARIABLES
  failedConfig,  \* e.config of the axios error fromAxiosError is given
  errorData      \* data.request of the AkeneoError it builds

maskVars == <<failedConfig, errorData>>

pureVars == <<errVars, pageVars, ctorVars, maskVars>>

vars == <<now, grant, grantPromise, nExch, pstate, presp, pstart, reactions,
          mq, pc, awaiting, result, early, late, held, retry, rpc, optRetry,
          retryCount, lastError, attempts, lastResponse, only500, raised,
          configRetry, retryConfig, delay, waited, body, n429, optHeaders,
          sentHeaders, inflight, lastErrorAt, raisedAt, classified,
          retryable, transformed, thrown, pages, response, nextHref, ppc,
          fetched, listOptions, lpc,
          apiConfig, constructed, ctorError, failedConfig, errorData>>

----------------------------------------------------------------------------
\* AkeneoGrant

\* new AkeneoGrant(response): expiresAt = construction time + expires_in.
\* `by` is the call that constructs the object and gives it its identity.
AkeneoGrant(expires_in, t, by) == [id |-> by, expiresAt |-> t + expires_in]

\* AkeneoGrant.expiresWithin(secs)
expiresWithin(g, secs, t) == g.expiresAt < t + secs

----------------------------------------------------------------------------
\* AkeneoAuth

Settled(p) == pstate[p] \in {"fulfilled", "rejected"}

\* `await p` throws when p is rejected
Throws_Swallowed(p) == FALSE
Throws(p) == pstate[p] = "rejected"

\* line 86: this.grant && !this.grant.expiresWithin(this.config.refreshIfWithinSecs)
CacheHit_NoExpiryCheck(g, t) == g # NoGrant
CacheHit(g, t) == g # NoGrant /\ ~expiresWithin(g, refreshIfWithinSecs, t)

InFlight == {p \in PromiseIds : pstate[p] = "pending"}

\* `await this.grantPromise` (line 84): the call suspends on the promise that
\* grantPromise refers to now; a settled promise schedules the continuation
\* as a microtask, a pending one registers it as a reaction.
AwaitGrantPromise(i) ==
  /\ pc[i] = "idle"
  /\ pc' = [pc EXCEPT ![i] = "await1"]
  /\ awaiting' = [awaiting EXCEPT ![i] = grantPromise]
  /\ early' = [early EXCEPT ![i] = \A p \in PromiseIds \ {0} : ~Settled(p)]
  /\ late' = [late EXCEPT ![i] = pstate[grantPromise] = "rejected"]
  /\ held' = [held EXCEPT ![i] = CacheHit(grant, now) /\ InFlight = {}]
  /\ IF Settled(grantPromise)
       THEN /\ mq' = Append(mq, i)
            /\ UNCHANGED reactions
       ELSE /\ reactions' = [reactions EXCEPT ![grantPromise] = Append(@, i)]
            /\ UNCHANGED mq
  /\ UNCHANGED <<now, grant, grantPromise, nExch, pstate, presp, pstart, result>>

\* a caller invokes auth.getClientGrant(); the synchronous part runs up to
\* the first await. Call i is the i-th call that is issued.
getClientGrant(i) ==
  /\ i \in DirectCalls
  /\ \A j \in DirectCalls : j < i => pc[j] # "idle"
  /\ AwaitGrantPromise(i)
  /\ UNCHANGED <<reqVars, pureVars>>

ResumeThrow_ClearsGrant ==
  /\ UNCHANGED <<reqVars, pureVars>>
  /\ mq # <<>>
  /\ LET i == Head(mq) IN
     /\ Throws(awaiting[i])
     /\ pc' = [pc EXCEPT ![i] = "rejected"]
     /\ result' = [result EXCEPT ![i] =
           [kind |-> "error", grant |-> NoGrant,
            via |-> IF pc[i] = "await2" THEN "exchange" ELSE "wait",
            of |-> awaiting[i]]]
  /\ mq' = Tail(mq)
  /\ grant' = NoGrant
  /\ UNCHANGED <<now, grantPromise, nExch, pstate, presp, pstart,
                 reactions, awaiting, early, late, held>>

\* the awaited promise was rejected: the await throws and the call rejects
\* with the error of that promise (lines 84 and 91)
ResumeThrow ==
  /\ UNCHANGED <<reqVars, pureVars>>
  /\ mq # <<>>
  /\ LET i == Head(mq) IN
     /\ Throws(awaiting[i])
     /\ pc' = [pc EXCEPT ![i] = "rejected"]
     /\ result' = [result EXCEPT ![i] =
           [kind |-> "error", grant |-> NoGrant,
            via |-> IF pc[i] = "await2" THEN "exchange" ELSE "wait",
            of |-> awaiting[i]]]
  /\ mq' = Tail(mq)
  /\ UNCHANGED <<now, grant, grantPromise, nExch, pstate, presp, pstart,
                 reactions, awaiting, early, late, held>>

\* lines 86-88: the held grant is still good and is returned
ResumeCached ==
  /\ UNCHANGED <<reqVars, pureVars>>
  /\ mq # <<>>
  /\ LET i == Head(mq) IN
     /\ pc[i] = "await1"
     /\ ~Throws(awaiting[i])
     /\ CacheHit(grant, now)
     /\ pc' = [pc EXCEPT ![i] = "returned"]
     /\ result' = [result EXCEPT ![i] =
           [kind |-> "grant", grant |-> grant, via |-> "cache", of |-> 0]]
  /\ mq' = Tail(mq)
  /\ UNCHANGED <<now, grant, grantPromise, nExch, pstate, presp, pstart,
                 reactions, awaiting, early, late, held>>

\* lines 90-91: this.grantPromise = this.api.getClientGrant(), then the call
\* awaits the new promise
ResumeStartExchange ==
  /\ UNCHANGED <<reqVars, pureVars>>
  /\ mq # <<>>
  /\ LET i == Head(mq)
         q == nExch + 1
     IN
     /\ pc[i] = "await1"
     /\ ~Throws(awaiting[i])
     /\ ~CacheHit(grant, now)
     /\ nExch' = q
     /\ pstate' = [pstate EXCEPT ![q] = "pending"]
     /\ pstart' = [pstart EXCEPT ![q] = grant]
     /\ grantPromise' = q
     /\ pc' = [pc EXCEPT ![i] = "await2"]
     /\ awaiting' = [awaiting EXCEPT ![i] = q]
     /\ reactions' = [reactions EXCEPT ![q] = <<i>>]
  /\ mq' = Tail(mq)
  /\ UNCHANGED <<now, grant, presp, result, early, late, held>>

\* lines 91-93: this.grant = new AkeneoGrant(await this.grantPromise)
ResumeExchanged_LatestPromise ==
  /\ UNCHANGED <<reqVars, pureVars>>
  /\ mq # <<>>
  /\ LET i == Head(mq)
         g == AkeneoGrant(presp[grantPromise], now, i)
     IN
     /\ pc[i] = "await2"
     /\ ~Throws(awaiting[i])
     /\ grant' = g
     /\ pc' = [pc EXCEPT ![i] = "returned"]
     /\ result' = [result EXCEPT ![i] =
           [kind |-> "grant", grant |-> g, via |-> "exchange",
            of |-> awaiting[i]]]
  /\ mq' = Tail(mq)
  /\ UNCHANGED <<now, grantPromise, nExch, pstate, presp, pstart, reactions,
                 awaiting, early, late, held>>
ResumeExchanged ==
  /\ UNCHANGED <<reqVars, pureVars>>
  /\ mq # <<>>
  /\ LET i == Head(mq)
         g == AkeneoGrant(presp[awaiting[i]], now, i)
     IN
     /\ pc[i] = "await2"
     /\ ~Throws(awaiting[i])
     /\ grant' = g
     /\ pc' = [pc EXCEPT ![i] = "returned"]
     /\ result' = [result EXCEPT ![i] =
           [kind |-> "grant", grant |-> g, via |-> "exchange",
            of |-> awaiting[i]]]
  /\ mq' = Tail(mq)
  /\ UNCHANGED <<now, grantPromise, nExch, pstate, presp, pstart, reactions,
                 awaiting, early, late, held>>

\* AkeneoAuthApi.post: the token endpoint answered 200 with a grant response
ExchangeSucceeds ==
  /\ UNCHANGED <<reqVars, pureVars>>
  /\ mq = <<>>
  /\ \E p \in InFlight, e \in ExpiresInValues :
       /\ pstate' = [pstate EXCEPT ![p] = "fulfilled"]
       /\ presp' = [presp EXCEPT ![p] = e]
       /\ mq' = reactions[p]
       /\ reactions' = [reactions EXCEPT ![p] = <<>>]
  /\ UNCHANGED <<now, grant, grantPromise, nExch, pstart, pc, awaiting,
                 result, early, late, held>>

\* AkeneoAuthApi.post: the exchange failed and the promise rejects with an
\* AkeneoError (or with the error thrown)
ExchangeFails ==
  /\ UNCHANGED <<reqVars, pureVars>>
  /\ mq = <<>>
  /\ \E p \in InFlight :
       /\ pstate' = [pstate EXCEPT ![p] = "rejected"]
       /\ mq' = reactions[p]
       /\ reactions' = [reactions EXCEPT ![p] = <<>>]
  /\ UNCHANGED <<now, grant, grantPromise, nExch, presp, pstart, pc,
                 awaiting, result, early, late, held>>

\* the wall clock advances
Tick ==
  /\ UNCHANGED <<reqVars, pureVars>>
  /\ now < MaxTime
  /\ now' = now + 1
  /\ UNCHANGED <<grant, grantPromise, nExch, pstate, presp, pstart,
                 reactions, mq, pc, awaiting, result, early, late, held>>

----------------------------------------------------------------------------
\* AkeneoApi

\* an undefined `retry` option
NoRetryConfig == [defined |-> FALSE, maxRetries |-> 0, delayMs |-> 0,
                  jitter |-> FALSE, max429Retries |-> -1]
\* AkeneoRetryConfig values: jitter and max429Retries are optional (FALSE and
\* -1 when left undefined)
RetryConfigs ==
  {[defined |-> TRUE, maxRetries |-> k, delayMs |-> BaseDelayMs,
    jitter |-> FALSE, max429Retries |-> -1] : k \in 0..MaxRetriesBound}
OverrideRetryConfig ==
  [defined |-> TRUE, maxRetries |-> OverrideMaxRetries,
   delayMs |-> OverrideDelayMs, jitter |-> FALSE, max429Retries |-> -1]
JitterRetryConfig ==
  [defined |-> TRUE, maxRetries |-> MaxRetriesBound, delayMs |-> JitterDelayMs,
   jitter |-> TRUE, max429Retries |-> 4]
RichRetryConfigs == RetryConfigs \cup {OverrideRetryConfig, JitterRetryConfig}

\* DEFAULT_RETRY_CONFIG
DEFAULT_RETRY_CONFIG == [defined |-> TRUE, maxRetries |-> 0, delayMs |-> 0,
                         jitter |-> FALSE, max429Retries |-> -1]

\* RETRYABLE_STATUS_CODES
RETRYABLE_STATUS_CODES_With400 == {400, 500, 501, 502, 503, 504}
RETRYABLE_STATUS_CODES == {500, 501, 502, 503, 504}

\* the values the transport call can throw: an axios error with a response
\* (which then also has the request), an axios error without a response
\* (timeout, connection reset), and a value that is not an axios error.
\* retryAfter is the Retry-After header of the response, in seconds
\* (0: no header)
StatusCodes == {400, 401, 403, 429, 500}
\* a JavaScript value that is caught or thrown, by the properties the code
\* reads: isAxiosError, isAkeneoError, request, response (present or not),
\* response.status (0: undefined), message; `auth` marks the error of a
\* rejected getClientGrant() and `none` the absence of a value
ErrorValue(ax, ak, rq, rs, st, msg) ==
  [isAxiosError |-> ax, isAkeneoError |-> ak, request |-> rq,
   response |-> rs, status |-> st, message |-> msg, retryAfter |-> 0,
   auth |-> FALSE, none |-> FALSE]
NoError == [ErrorValue(FALSE, FALSE, FALSE, FALSE, 0, "") EXCEPT !.none = TRUE]
AxiosStatusError(st) ==
  ErrorValue(TRUE, FALSE, TRUE, TRUE, st, "Request failed with status code")
TooManyRequests(secs) == [AxiosStatusError(429) EXCEPT !.retryAfter = secs]
TransportErrors ==
  {AxiosStatusError(st) : st \in StatusCodes} \cup
  { TooManyRequests(RetryAfterSecs),
    ErrorValue(TRUE, FALSE, TRUE, FALSE, 0, "timeout exceeded"),
    ErrorValue(FALSE, FALSE, FALSE, FALSE, 0, "not an axios error") }
\* a 2xx answer, recorded in lastResponse
Success == ErrorValue(FALSE, FALSE, TRUE, TRUE, 200, "")

\* nothing was thrown
NoRaised == NoError

\* AkeneoApi.isRetryableError
isRetryableError_BothMissing(error) ==
  IF ~error.isAxiosError THEN TRUE
  ELSE IF ~error.request /\ ~error.response THEN TRUE
  ELSE error.status \in RETRYABLE_STATUS_CODES
isRetryableError(error) ==
  IF ~error.isAxiosError THEN TRUE
  ELSE IF ~error.request \/ ~error.response THEN TRUE
  ELSE error.status \in RETRYABLE_STATUS_CODES

\* AkeneoError.fromAxiosError: new AkeneoError(e.message, {...},
\* e.response?.status)
fromAxiosError_NoStatus(e) ==
  ErrorValue(FALSE, TRUE, FALSE, FALSE, 0, e.message)
fromAxiosError(e) ==
  ErrorValue(FALSE, TRUE, FALSE, FALSE,
             IF e.response THEN e.status ELSE 0, e.message)

\* AkeneoApi.transformError
transformError_AlwaysConverted(error) == fromAxiosError(error)
transformError(error) ==
  IF error.isAxiosError THEN fromAxiosError(error) ELSE error

\* AkeneoApi.getRetryConfig: methodRetryConfig || this.retry
getRetryConfig_Merged(methodRetryConfig) ==
  IF methodRetryConfig.defined
    THEN [methodRetryConfig EXCEPT
            !.jitter = @ \/ retry.jitter,
            !.max429Retries = IF @ = -1 THEN retry.max429Retries ELSE @]
    ELSE retry
getRetryConfig(methodRetryConfig) ==
  IF methodRetryConfig.defined THEN methodRetryConfig ELSE retry

\* the loop condition of request(): retryCount <= retryConfig.maxRetries
LoopAgain_Strict(count, config) == count < config.maxRetries
LoopAgain_OneMore(count, config) == count <= config.maxRetries + 1
LoopAgain(count, config) == count <= config.maxRetries

RECURSIVE Pow2(_)
Pow2(n) == IF n <= 0 THEN 1 ELSE 2 * Pow2(n - 1)

\* calculateDelay(retryCount, retryConfig) of '../utils': the values it can
\* return. Without jitter the delay is delayMs * 2^(retryCount-1); with
\* jitter it is drawn at random from an interval that ends at that value,
\* starts at 0 for the first retry and narrows as retryCount grows.
calculateDelay(count, config) ==
  LET exponential == config.delayMs * Pow2(count - 1)
  IN IF config.jitter
       THEN (exponential - (exponential \div count))..exponential
       ELSE {exponential}

\* lines 529-531: if (retryCount > 0) delay = calculateDelay(retryCount, retryConfig)
DelayFor_NextCount(count, config) ==
  IF count > 0 THEN calculateDelay(count + 1, config) ELSE {0}
DelayFor(count, config) ==
  IF count > 0 THEN calculateDelay(count, config) ELSE {0}

\* HTTP headers, by the two entries the request executor is concerned with;
\* an entry that is not set is Absent. An Authorization value is a scheme
\* with a credential: <<"Bearer", id of the grant>> stands for
\* `Bearer ${grant.accessToken}`.
Absent == <<>>
NoHeaders == [Authorization |-> Absent, ContentType |-> Absent]
\* the headers a caller may pass in options.headers
CallerHeaders ==
  { NoHeaders,
    [Authorization |-> <<"Basic", 0>>, ContentType |-> Absent],
    [Authorization |-> Absent, ContentType |-> <<"text/plain", 0>>] }

\* object spread {...base, ...over}: an entry of `over` replaces the one of
\* `base`
Spread(base, over) ==
  [k \in DOMAIN base |-> IF over[k] # Absent THEN over[k] ELSE base[k]]

\* the headers built by getRequestOptions (lines 570-574): the defaults of
\* the axios instance (Accept and User-Agent only), then Authorization, then
\* the headers of the caller
RequestHeaders(g, callerHeaders) ==
  Spread(Spread(NoHeaders, [NoHeaders EXCEPT !.Authorization = <<"Bearer", g.id>>]),
         callerHeaders)

\* request(options) is called with options.retry = o and options.headers = h:
\* getRequestOptions calls auth.getClientGrant(), which runs up to its first
\* await
requestWith(r, o, h) ==
  /\ rpc[r] = "idle"
  /\ \A q \in ReqIds : q < r => rpc[q] # "idle"
  /\ optRetry' = [optRetry EXCEPT ![r] = o]
  /\ optHeaders' = [optHeaders EXCEPT ![r] = h]
  /\ rpc' = [rpc EXCEPT ![r] = "grant"]
  /\ AwaitGrantPromise(CallOf(r))
  /\ UNCHANGED <<retry, retryCount, lastError, attempts, lastResponse,
                 only500, raised, configRetry, retryConfig, delay, waited,
                 body, n429, sentHeaders, inflight, lastErrorAt, raisedAt>>
  /\ UNCHANGED pureVars

\* a request() call that gives no retry option or a plain one, and no headers
request(r) ==
  \E o \in RetryConfigs \cup {NoRetryConfig} : requestWith(r, o, NoHeaders)

\* a request() call that may give any of the retry options and headers
requestAnyRetry(r) ==
  \E o \in RichRetryConfigs \cup {NoRetryConfig}, h \in CallerHeaders :
    requestWith(r, o, h)

requestSend_Delayed(r) ==
  /\ rpc[r] = "grant"
  /\ pc[CallOf(r)] = "returned"
  /\ rpc' = [rpc EXCEPT ![r] = "attempt"]
  /\ sentHeaders' = [sentHeaders EXCEPT ![r] =
        RequestHeaders(result[CallOf(r)].grant, optHeaders[r])]
  /\ retryConfig' = [retryConfig EXCEPT ![r] = getRetryConfig(optRetry[r])]
  /\ retryCount' = [retryCount EXCEPT ![r] = 0]
  /\ attempts' = [attempts EXCEPT ![r] = 1]
  /\ inflight' = [inflight EXCEPT ![r] = @ + 1]
  /\ waited' = [waited EXCEPT ![r] = @ + getRetryConfig(optRetry[r]).delayMs]
  /\ UNCHANGED <<retry, optRetry, lastError, lastResponse, only500, raised,
                 configRetry, delay, body, n429, optHeaders,
                 lastErrorAt, raisedAt>>
  /\ UNCHANGED <<authVars, pureVars>>

requestSend_SharedConfig(r) ==
  /\ rpc[r] = "grant"
  /\ pc[CallOf(r)] = "returned"
  /\ rpc' = [rpc EXCEPT ![r] = "attempt"]
  /\ sentHeaders' = [sentHeaders EXCEPT ![r] =
        RequestHeaders(result[CallOf(r)].grant, optHeaders[r])]
  /\ retryConfig' = [q \in ReqIds |-> getRetryConfig(optRetry[r])]
  /\ retryCount' = [retryCount EXCEPT ![r] = 0]
  /\ attempts' = [attempts EXCEPT ![r] = 1]
  /\ inflight' = [inflight EXCEPT ![r] = @ + 1]
  /\ UNCHANGED <<retry, optRetry, lastError, lastResponse, only500, raised,
                 configRetry, delay, waited, body, n429, optHeaders,
                 lastErrorAt, raisedAt>>
  /\ UNCHANGED <<authVars, pureVars>>

\* getClientGrant() resolved: the request options are built with the grant
\* it returned, the retry configuration is chosen, retryCount = 0 and the
\* first transport call is made (lines 523-534)
requestSend(r) ==
  /\ rpc[r] = "grant"
  /\ pc[CallOf(r)] = "returned"
  /\ rpc' = [rpc EXCEPT ![r] = "attempt"]
  /\ sentHeaders' = [sentHeaders EXCEPT ![r] =
        RequestHeaders(result[CallOf(r)].grant, optHeaders[r])]
  /\ retryConfig' = [retryConfig EXCEPT ![r] = getRetryConfig(optRetry[r])]
  /\ retryCount' = [retryCount EXCEPT ![r] = 0]
  /\ attempts' = [attempts EXCEPT ![r] = 1]
  /\ inflight' = [inflight EXCEPT ![r] = @ + 1]
  /\ UNCHANGED <<retry, optRetry, lastError, lastResponse, only500, raised,
                 configRetry, delay, waited, body, n429, optHeaders,
                 lastErrorAt, raisedAt>>
  /\ UNCHANGED <<authVars, pureVars>>

requestGrantFailed_SendsAnyway(r) ==
  /\ rpc[r] = "grant"
  /\ pc[CallOf(r)] = "rejected"
  /\ rpc' = [rpc EXCEPT ![r] = "attempt"]
  /\ retryConfig' = [retryConfig EXCEPT ![r] = getRetryConfig(optRetry[r])]
  /\ attempts' = [attempts EXCEPT ![r] = 1]
  /\ inflight' = [inflight EXCEPT ![r] = @ + 1]
  /\ UNCHANGED <<retry, optRetry, retryCount, lastError, raised,
                 lastResponse, only500, configRetry, delay,
                 waited, body, n429, optHeaders, sentHeaders,
                 lastErrorAt, raisedAt>>
  /\ UNCHANGED <<authVars, pureVars>>

\* getClientGrant() rejected: getRequestOptions throws and request() rejects
\* with that error before any transport call (line 523)
requestGrantFailed(r) ==
  /\ rpc[r] = "grant"
  /\ pc[CallOf(r)] = "rejected"
  /\ rpc' = [rpc EXCEPT ![r] = "raised"]
  /\ raised' = [raised EXCEPT ![r] =
        [ErrorValue(FALSE, TRUE, FALSE, FALSE, 0, "Request failed with status code")
           EXCEPT !.auth = TRUE]]
  /\ UNCHANGED <<retry, optRetry, retryCount, lastError, attempts,
                 lastResponse, only500, configRetry, retryConfig, delay,
                 waited, body, n429, optHeaders, sentHeaders, inflight,
                 lastErrorAt, raisedAt>>
  /\ UNCHANGED <<authVars, pureVars>>

\* the transport call resolved: request() returns response.data (line 535)
attemptSucceeds_Retried(r) ==
  /\ mq = <<>>
  /\ rpc[r] = "attempt"
  /\ rpc' = [rpc EXCEPT ![r] =
        IF LoopAgain(retryCount[r] + 1, retryConfig[r])
          THEN "delay" ELSE "returned"]
  /\ lastResponse' = [lastResponse EXCEPT ![r] = Success]
  /\ only500' = [only500 EXCEPT ![r] = FALSE]
  /\ body' = [body EXCEPT ![r] = attempts[r]]
  /\ retryCount' = [retryCount EXCEPT ![r] = @ + 1]
  /\ inflight' = [inflight EXCEPT ![r] = @ - 1]
  /\ UNCHANGED <<retry, optRetry, lastError, attempts, raised,
                 configRetry, retryConfig, delay, waited, n429, optHeaders,
                 sentHeaders, lastErrorAt, raisedAt>>
  /\ UNCHANGED <<authVars, pureVars>>
attemptSucceeds(r) ==
  /\ mq = <<>>
  /\ rpc[r] = "attempt"
  /\ rpc' = [rpc EXCEPT ![r] = "returned"]
  /\ lastResponse' = [lastResponse EXCEPT ![r] = Success]
  /\ only500' = [only500 EXCEPT ![r] = FALSE]
  /\ body' = [body EXCEPT ![r] = attempts[r]]
  /\ inflight' = [inflight EXCEPT ![r] = @ - 1]
  /\ UNCHANGED <<retry, optRetry, retryCount, lastError, attempts, raised,
                 configRetry, retryConfig, delay, waited, n429, optHeaders,
                 sentHeaders, lastErrorAt, raisedAt>>
  /\ UNCHANGED <<authVars, pureVars>>

attemptFails_RaisesFirst(r) ==
  /\ mq = <<>>
  /\ rpc[r] = "attempt"
  /\ inflight' = [inflight EXCEPT ![r] = @ - 1]
  /\ \E error \in TransportErrors :
       /\ lastResponse' = [lastResponse EXCEPT ![r] = error]
       /\ only500' = [only500 EXCEPT ![r] =
             @ /\ error = AxiosStatusError(500)]
       /\ n429' = [n429 EXCEPT ![r] =
             IF error.response /\ error.status = 429 THEN @ + 1 ELSE @]
       /\ IF isRetryableError(error)
            THEN /\ lastError' = [lastError EXCEPT ![r] = error]
                 /\ lastErrorAt' = [lastErrorAt EXCEPT ![r] = attempts[r]]
                 /\ retryCount' = [retryCount EXCEPT ![r] = @ + 1]
                 /\ IF LoopAgain(retryCount[r] + 1, retryConfig[r])
                      THEN /\ rpc' = [rpc EXCEPT ![r] = "delay"]
                           /\ \E d \in DelayFor(retryCount[r] + 1, retryConfig[r]) :
                                delay' = [delay EXCEPT ![r] = d]
                           /\ UNCHANGED <<raised, raisedAt>>
                      ELSE /\ rpc' = [rpc EXCEPT ![r] = "raised"]
                           /\ raised' = [raised EXCEPT ![r] =
                                 transformError(lastError'[r])]
                           /\ raisedAt' = [raisedAt EXCEPT ![r] = lastErrorAt'[r]]
                           /\ UNCHANGED delay
            ELSE /\ rpc' = [rpc EXCEPT ![r] = "raised"]
                 /\ raised' = [raised EXCEPT ![r] =
                       transformError(IF lastError[r].none THEN error
                                      ELSE lastError[r])]
                 /\ raisedAt' = [raisedAt EXCEPT ![r] = attempts[r]]
                 /\ UNCHANGED <<lastError, lastErrorAt, retryCount, delay>>
  /\ UNCHANGED <<retry, optRetry, attempts, configRetry, retryConfig, waited,
                 body, optHeaders, sentHeaders>>
  /\ UNCHANGED <<authVars, pureVars>>

attemptFails_DropsGrant(r) ==
  /\ mq = <<>>
  /\ rpc[r] = "attempt"
  /\ inflight' = [inflight EXCEPT ![r] = @ - 1]
  /\ \E error \in TransportErrors :
       /\ lastResponse' = [lastResponse EXCEPT ![r] = error]
       /\ only500' = [only500 EXCEPT ![r] =
             @ /\ error = AxiosStatusError(500)]
       /\ n429' = [n429 EXCEPT ![r] =
             IF error.response /\ error.status = 429 THEN @ + 1 ELSE @]
       /\ IF isRetryableError(error)
            THEN /\ lastError' = [lastError EXCEPT ![r] = error]
                 /\ lastErrorAt' = [lastErrorAt EXCEPT ![r] = attempts[r]]
                 /\ retryCount' = [retryCount EXCEPT ![r] = @ + 1]
                 /\ IF LoopAgain(retryCount[r] + 1, retryConfig[r])
                      THEN /\ rpc' = [rpc EXCEPT ![r] = "delay"]
                           /\ \E d \in DelayFor(retryCount[r] + 1, retryConfig[r]) :
                                delay' = [delay EXCEPT ![r] = d]
                           /\ UNCHANGED <<raised, raisedAt>>
                      ELSE /\ rpc' = [rpc EXCEPT ![r] = "raised"]
                           /\ raised' = [raised EXCEPT ![r] =
                                 transformError(lastError'[r])]
                           /\ raisedAt' = [raisedAt EXCEPT ![r] = lastErrorAt'[r]]
                           /\ UNCHANGED delay
            ELSE /\ rpc' = [rpc EXCEPT ![r] = "raised"]
                 /\ raised' = [raised EXCEPT ![r] = transformError(error)]
                 /\ raisedAt' = [raisedAt EXCEPT ![r] = attempts[r]]
                 /\ UNCHANGED <<lastError, lastErrorAt, retryCount, delay>>
  /\ UNCHANGED <<retry, optRetry, attempts, configRetry, retryConfig, waited,
                 body, optHeaders, sentHeaders>>
  /\ grant' = IF lastResponse'[r].status \in {401, 403} THEN NoGrant ELSE grant
  /\ UNCHANGED <<now, grantPromise, nExch, pstate, presp, pstart,
                 reactions, mq, pc, awaiting, result, early, late, held>>
  /\ UNCHANGED pureVars

\* the transport call threw `error`: the catch block, the loop condition and,
\* when the loop goes on, the delay computed at the top of the next iteration
\* (lines 528-546)
attemptFails(r) ==
  /\ mq = <<>>
  /\ rpc[r] = "attempt"
  /\ inflight' = [inflight EXCEPT ![r] = @ - 1]
  /\ \E error \in TransportErrors :
       /\ lastResponse' = [lastResponse EXCEPT ![r] = error]
       /\ only500' = [only500 EXCEPT ![r] =
             @ /\ error = AxiosStatusError(500)]
       /\ n429' = [n429 EXCEPT ![r] =
             IF error.response /\ error.status = 429 THEN @ + 1 ELSE @]
       /\ IF isRetryableError(error)
            THEN /\ lastError' = [lastError EXCEPT ![r] = error]
                 /\ lastErrorAt' = [lastErrorAt EXCEPT ![r] = attempts[r]]
                 /\ retryCount' = [retryCount EXCEPT ![r] = @ + 1]
                 /\ IF LoopAgain(retryCount[r] + 1, retryConfig[r])
                      THEN /\ rpc' = [rpc EXCEPT ![r] = "delay"]
                           /\ \E d \in DelayFor(retryCount[r] + 1, retryConfig[r]) :
                                delay' = [delay EXCEPT ![r] = d]
                           /\ UNCHANGED <<raised, raisedAt>>
                      ELSE /\ rpc' = [rpc EXCEPT ![r] = "raised"]
                           /\ raised' = [raised EXCEPT ![r] =
                                 transformError(lastError'[r])]
                           /\ raisedAt' = [raisedAt EXCEPT ![r] = lastErrorAt'[r]]
                           /\ UNCHANGED delay
            ELSE /\ rpc' = [rpc EXCEPT ![r] = "raised"]
                 /\ raised' = [raised EXCEPT ![r] = transformError(error)]
                 /\ raisedAt' = [raisedAt EXCEPT ![r] = attempts[r]]
                 /\ UNCHANGED <<lastError, lastErrorAt, retryCount, delay>>
  /\ UNCHANGED <<retry, optRetry, attempts, configRetry, retryConfig, waited,
                 body, optHeaders, sentHeaders>>
  /\ UNCHANGED <<authVars, pureVars>>

\* the timer of the retry delay fired: the next transport call is made with
\* the same requestConfig (lines 531-534)
delayElapsed_Unawaited(r) ==
  /\ mq = <<>>
  /\ rpc[r] \in {"delay", "attempt"}
  /\ attempts[r] <= retryConfig[r].maxRetries
  /\ rpc' = [rpc EXCEPT ![r] = "attempt"]
  /\ attempts' = [attempts EXCEPT ![r] = @ + 1]
  /\ inflight' = [inflight EXCEPT ![r] = @ + 1]
  /\ waited' = [waited EXCEPT ![r] = @ + delay[r]]
  /\ UNCHANGED <<retry, optRetry, retryCount, lastError, lastResponse,
                 only500, raised, configRetry, retryConfig, delay, body,
                 n429, optHeaders, sentHeaders, lastErrorAt, raisedAt>>
  /\ UNCHANGED <<authVars, pureVars>>
delayElapsed(r) ==
  /\ mq = <<>>
  /\ rpc[r] = "delay"
  /\ rpc' = [rpc EXCEPT ![r] = "attempt"]
  /\ attempts' = [attempts EXCEPT ![r] = @ + 1]
  /\ inflight' = [inflight EXCEPT ![r] = @ + 1]
  /\ waited' = [waited EXCEPT ![r] = @ + delay[r]]
  /\ UNCHANGED <<retry, optRetry, retryCount, lastError, lastResponse,
                 only500, raised, configRetry, retryConfig, delay, body,
                 n429, optHeaders, sentHeaders, lastErrorAt, raisedAt>>
  /\ UNCHANGED <<authVars, pureVars>>

\* the errors isRetryableError is applied to: any combination of the
\* isAxiosError, request and response properties, with the status of the
\* response when there is one
ClassifyStatuses == {400, 401, 403, 404, 409, 422, 429, 499, 500, 501, 502,
                     503, 504, 505}
Messages == {"Request failed with status code", "timeout exceeded"}
ErrorInputs ==
  {ErrorValue(a, FALSE, q, FALSE, 0, m) :
      a \in BOOLEAN, q \in BOOLEAN, m \in Messages} \cup
  {ErrorValue(a, FALSE, q, TRUE, st, m) :
      a \in BOOLEAN, q \in BOOLEAN, st \in ClassifyStatuses, m \in Messages}

\* api.isRetryableError(classified) is called
classify ==
  /\ retryable = "unknown"
  /\ retryable' = IF isRetryableError(classified) THEN "yes" ELSE "no"
  /\ UNCHANGED <<classified, transformed, thrown, pageVars, ctorVars, maskVars, authVars, reqVars>>

\* api.transformError(classified) is called
transform ==
  /\ transformed = NoError
  /\ transformed' = transformError(classified)
  /\ UNCHANGED <<classified, retryable, thrown, pageVars, ctorVars, maskVars, authVars, reqVars>>

\* the catch block of AkeneoAuthApi.post (part_002, lines 663-668)
postCatch_Rethrow(error) == error
postCatch(error) ==
  IF error.isAxiosError THEN fromAxiosError(error) ELSE error

\* the transport call of AkeneoAuthApi.post threw `classified`
post ==
  /\ thrown = NoError
  /\ thrown' = postCatch(classified)
  /\ UNCHANGED <<classified, retryable, transformed, pageVars, ctorVars, maskVars, authVars,
                 reqVars>>

----------------------------------------------------------------------------
\* Pagination: AkeneoApi.appendRemainingPages and followLink.

MaxPages == 3

\* the items a page can carry
PageItems == {<<>>, <<1>>, <<2, 1>>}

\* _links of a page: an href is the number of the page it points to, 0 when
\* the link is absent
Links(first, self, next) == [first |-> first, self |-> self, next |-> next]

\* page j of a chain of n pages: its next link points to page j + 1 and the
\* last page has none
Page(j, n, items) ==
  [items |-> items, links |-> Links(1, j, IF j < n THEN j + 1 ELSE 0)]

PageChains ==
  UNION { { [j \in 1..n |-> Page(j, n, its[j])] : its \in [1..n -> PageItems] }
          : n \in 1..MaxPages }

\* a server that never returns a page without a next link: the last page of
\* the chain links back to the first
CyclicChains ==
  { [chain EXCEPT ![Len(chain)].links.next = 1] : chain \in PageChains }

Ends(chain) == chain[Len(chain)].links.next = 0

\* options.response._links.next?.href
nextHrefOf(resp) == resp.links.next

\* the follow-up requests a run may issue before it is cut off: more than any
\* chain that ends needs
MaxFetches == MaxPages + 1

\* the options of a list call: fetchAll, the retry option and whether query
\* parameters are given
ListOptions(fetchAll, o, params) ==
  [fetchAll |-> fetchAll, retry |-> o, params |-> params]
NoListOptions == ListOptions(FALSE, NoRetryConfig, FALSE)
ListOptionValues ==
  { ListOptions(f, o, p) :
      f \in BOOLEAN, o \in {NoRetryConfig, OverrideRetryConfig},
      p \in BOOLEAN }

followLink_FirstPage(url) ==
  [method |-> "GET", url |-> 1, retry |-> NoRetryConfig, params |-> FALSE]
followLink_Inherits(url) ==
  [method |-> "GET", url |-> url, retry |-> listOptions.retry,
   params |-> listOptions.params]

\* followLink: the options it gives to request() are the method and the url
\* only, so `retry` and `params` are undefined
followLink(url) ==
  [method |-> "GET", url |-> url, retry |-> NoRetryConfig, params |-> FALSE]

\* the page the server returns for the last follow-up request
RequestedPage == pages[fetched[Len(fetched)].url]

\* no page list at hand
InitNoPages ==
  /\ pages = <<Page(1, 1, <<>>)>>
  /\ response = Page(1, 1, <<>>)
  /\ nextHref = 0
  /\ ppc = "idle"
  /\ fetched = <<>>
  /\ listOptions = NoListOptions
  /\ lpc = "idle"

pushItems_Prepended(target, items) == items \o target

\* options.response._embedded.items.push(...nextResponse._embedded.items)
pushItems(target, items) == target \o items

\* options.response._links = { first: options.response._links.first }
onlyFirstLink(links) == Links(links.first, 0, 0)

\* a list method is called (getListOfProducts and the like): its first
\* request is made with the params and retry options of the call
getListOfProducts ==
  /\ lpc = "idle"
  /\ ppc = "idle"
  /\ \E options \in ListOptionValues : listOptions' = options
  /\ lpc' = "first"
  /\ UNCHANGED <<pages, response, nextHref, ppc, fetched>>
  /\ UNCHANGED <<errVars, ctorVars, maskVars, authVars, reqVars>>

\* the first request of a list call without fetchAll resolved: the page is
\* returned as it is
listFirstReturns ==
  /\ lpc = "first"
  /\ ~listOptions.fetchAll
  /\ lpc' = "returned"
  /\ UNCHANGED <<pages, response, nextHref, ppc, fetched, listOptions>>
  /\ UNCHANGED <<errVars, ctorVars, maskVars, authVars, reqVars>>

\* the first request of a list call rejected: the list call rejects
listFirstFails ==
  /\ lpc = "first"
  /\ lpc' = "raised"
  /\ UNCHANGED <<pages, response, nextHref, ppc, fetched, listOptions>>
  /\ UNCHANGED <<errVars, ctorVars, maskVars, authVars, reqVars>>

\* the code from the entry of appendRemainingPages to its first await, or to
\* its end when the first page has no next link.  It is called with a
\* response at hand, or by a list call with fetchAll whose first request
\* resolved; the list call returns the response when appendRemainingPages
\* completes.
appendRemainingPages ==
  /\ ppc = "idle"
  /\ lpc = "idle" \/ (lpc = "first" /\ listOptions.fetchAll)
  /\ nextHref' = nextHrefOf(response)
  /\ IF nextHrefOf(response) # 0
       THEN /\ fetched' = Append(fetched, followLink(nextHrefOf(response)))
            /\ ppc' = "loop"
            /\ lpc' = IF lpc = "idle" THEN "idle" ELSE "paging"
            /\ UNCHANGED response
       ELSE /\ ppc' = "done"
            /\ lpc' = IF lpc = "idle" THEN "idle" ELSE "returned"
            /\ response' = [response EXCEPT !.links = onlyFirstLink(@)]
            /\ UNCHANGED fetched
  /\ UNCHANGED <<pages, listOptions>>
  /\ UNCHANGED <<errVars, ctorVars, maskVars, authVars, reqVars>>

\* followLink resolves with the page requested: the items are pushed,
\* nextHref moves on, and the loop either requests the next page or ends
followLinkReturns ==
  /\ ppc = "loop"
  /\ LET nextResponse == RequestedPage
         appended == [response EXCEPT
                        !.items = pushItems(@, nextResponse.items)]
     IN /\ nextHref' = nextHrefOf(nextResponse)
        /\ IF nextHrefOf(nextResponse) # 0
             THEN /\ Len(fetched) < MaxFetches
                  /\ fetched' =
                       Append(fetched, followLink(nextHrefOf(nextResponse)))
                  /\ response' = appended
                  /\ ppc' = "loop"
                  /\ UNCHANGED lpc
             ELSE /\ response' = [appended EXCEPT
                                    !.links = onlyFirstLink(@)]
                  /\ ppc' = "done"
                  /\ lpc' = IF lpc = "paging" THEN "returned" ELSE lpc
                  /\ UNCHANGED fetched
  /\ UNCHANGED <<pages, listOptions>>
  /\ UNCHANGED <<errVars, ctorVars, maskVars, authVars, reqVars>>

followLinkFails_LinksReduced ==
  /\ ppc = "loop"
  /\ ppc' = "failed"
  /\ response' = [response EXCEPT !.links = onlyFirstLink(@)]
  /\ lpc' = IF lpc = "paging" THEN "raised" ELSE lpc
  /\ UNCHANGED <<pages, nextHref, fetched, listOptions>>
  /\ UNCHANGED <<errVars, ctorVars, maskVars, authVars, reqVars>>

\* followLink rejects: the error leaves appendRemainingPages and, through it,
\* the list call; the response keeps what was appended so far and its links
followLinkFails ==
  /\ ppc = "loop"
  /\ ppc' = "failed"
  /\ lpc' = IF lpc = "paging" THEN "raised" ELSE lpc
  /\ UNCHANGED <<pages, response, nextHref, fetched, listOptions>>
  /\ UNCHANGED <<errVars, ctorVars, maskVars, authVars, reqVars>>

----------------------------------------------------------------------------
\* Construction: AkeneoApi.constructor and AkeneoApi.validateConfig.

\* what validateConfig can tell apart in a property: "empty" is any falsy
\* value (undefined, '', 0, null), "nonstring" a truthy value that is not a
\* string, "string" a non-empty string; for the endpoint "string" is a string
\* that `new URL` accepts and "badurl" a non-empty string that it rejects
FieldKinds == {"empty", "nonstring", "string"}
EndpointKinds == FieldKinds \cup {"badurl"}

MissingConfig ==
  [present |-> FALSE, endpoint |-> "empty", username |-> "empty",
   password |-> "empty", clientId |-> "empty", clientSecret |-> "empty"]

ValidConfig ==
  [present |-> TRUE, endpoint |-> "string", username |-> "string",
   password |-> "string", clientId |-> "string", clientSecret |-> "string"]

Configs ==
  {MissingConfig} \cup
  [present : {TRUE}, endpoint : EndpointKinds, username : FieldKinds,
   password : FieldKinds, clientId : FieldKinds, clientSecret : FieldKinds]

\* the errors validateConfig collects for one property
propertyErrors(name, kind) ==
  IF kind = "empty" THEN {<<name, "is empty">>}
  ELSE IF kind = "nonstring" THEN {<<name, "must be a string">>}
  ELSE IF kind = "badurl" THEN {<<name, "is not a valid URL">>}
  ELSE {}

validateConfig_SecretUnchecked(c) ==
  IF ~c.present THEN {<<"config", "missing or empty">>}
  ELSE propertyErrors("endpoint", c.endpoint)
         \cup propertyErrors("username", c.username)
         \cup propertyErrors("password", c.password)
         \cup propertyErrors("clientId", c.clientId)

\* the errors validateConfig collects; it throws when there is one
validateConfig(c) ==
  IF ~c.present THEN {<<"config", "missing or empty">>}
  ELSE propertyErrors("endpoint", c.endpoint)
         \cup propertyErrors("username", c.username)
         \cup propertyErrors("password", c.password)
         \cup propertyErrors("clientId", c.clientId)
         \cup propertyErrors("clientSecret", c.clientSecret)

\* new AkeneoError(message): no status, no data
ConfigError ==
  ErrorValue(FALSE, TRUE, FALSE, FALSE, 0,
             "The configuration object is not valid")

\* an instance that was constructed from a valid configuration
InitConstructed ==
  /\ apiConfig = ValidConfig
  /\ constructed = "ok"
  /\ ctorError = NoError

\* new AkeneoApi(config): validateConfig throws out of the constructor, or
\* the AkeneoAuth instance is created and the retry configuration stored
construct ==
  /\ constructed = "no"
  /\ IF validateConfig(apiConfig) # {}
       THEN /\ constructed' = "threw"
            /\ ctorError' = ConfigError
            /\ UNCHANGED retry
       ELSE /\ constructed' = "ok"
            /\ ctorError' = NoError
            /\ retry' = IF configRetry.defined THEN configRetry
                        ELSE DEFAULT_RETRY_CONFIG
  /\ UNCHANGED <<apiConfig, rpc, optRetry, retryCount, lastError, attempts,
                 lastResponse, only500, raised, configRetry, retryConfig,
                 delay, waited, body, n429, optHeaders, sentHeaders, inflight,
                 lastErrorAt, raisedAt>>
  /\ UNCHANGED <<errVars, pageVars, maskVars, authVars>>

\* a request() call on the instance the constructor returned
requestConstructed ==
  /\ constructed = "ok"
  /\ requestWith(1, NoRetryConfig, NoHeaders)

----------------------------------------------------------------------------
\* Masking: the request snapshot AkeneoError.fromAxiosError keeps.

\* the fixed mask
MASK == <<"********">>

\* values of the Authorization header of a failed request: the bearer token
\* of AkeneoApi.request, the basic credential of AkeneoAuthApi.post
AuthorizationValues == {<<"Bearer", 1>>, <<"Bearer", 2>>, <<"Basic", 0>>}

\* values of a `password` field
Passwords == {<<"password", 1>>, <<"password", 2>>}

JsonContentType == "application/json"
FormContentType == "application/x-www-form-urlencoded"

\* values of the Content-Type header; "" when there is none
ContentTypes == {JsonContentType, FormContentType, "text/plain", ""}

\* the content types parseRequestData parses a string body of
ParsedContentTypes == {JsonContentType, FormContentType}

\* config.data: nothing, or the string axios serialised the body into.  The
\* password field tells which password the body holds (Absent: none); in a
\* string the value is part of the text, in an object it is a property.
RequestData(kind, pw) == [kind |-> kind, password |-> pw]
NoData == RequestData("none", Absent)

\* e.config of the failed request
FailedConfig(a, ct, params, data) ==
  [hasConfig |-> TRUE, authorization |-> a, contentType |-> ct,
   params |-> params, data |-> data]

\* e.config is undefined
NoConfig ==
  [hasConfig |-> FALSE, authorization |-> Absent, contentType |-> "",
   params |-> Absent, data |-> NoData]

\* the failed requests: a body that carries a password is sent with a
\* content type parseRequestData parses, as AkeneoAuthApi.post sends it
FailedConfigs ==
  {NoConfig} \cup
  { FailedConfig(a, ct, p, dt) :
      a \in AuthorizationValues \cup {Absent},
      ct \in ContentTypes,
      p \in Passwords \cup {Absent},
      dt \in {NoData, RequestData("string", Absent)} }
  \cup
  { FailedConfig(a, ct, p, RequestData("string", pw)) :
      a \in AuthorizationValues \cup {Absent},
      ct \in ParsedContentTypes,
      p \in Passwords \cup {Absent},
      pw \in Passwords }

\* AkeneoError.parseRequestData: a non-empty string body is parsed into an
\* object when the content type is JSON or form-urlencoded, and is left a
\* string otherwise
parseRequestData(c) ==
  IF ~c.hasConfig THEN NoData
  ELSE IF c.data.kind = "string" /\ c.contentType \in ParsedContentTypes
    THEN RequestData("object", c.data.password)
  ELSE c.data

\* the headers of the failed request as a plain object
extractAxiosHeaders(c) ==
  [authorization |-> c.authorization, contentType |-> c.contentType]

\* the Authorization header, when there is one, is replaced by the mask
maskSensitiveHeaders(h) ==
  [h EXCEPT !.authorization = IF @ = Absent THEN Absent ELSE MASK]

\* a password property of an object is replaced by the mask
maskSensitiveInput(x) ==
  IF x.kind = "object" /\ x.password # Absent
    THEN [x EXCEPT !.password = MASK]
  ELSE x

\* e.config?.params: an object that may hold a password property
requestParams(c) ==
  IF c.params = Absent THEN NoData ELSE RequestData("object", c.params)

NotBuilt ==
  [built |-> FALSE, headers |-> extractAxiosHeaders(NoConfig),
   params |-> NoData, data |-> NoData]

fromAxiosErrorData_HeadersUnmasked(c) ==
  [built |-> TRUE,
   headers |-> extractAxiosHeaders(c),
   params |-> maskSensitiveInput(requestParams(c)),
   data |-> maskSensitiveInput(parseRequestData(c))]

\* data.request of the AkeneoError fromAxiosError builds
fromAxiosErrorData(c) ==
  [built |-> TRUE,
   headers |-> maskSensitiveHeaders(extractAxiosHeaders(c)),
   params |-> maskSensitiveInput(requestParams(c)),
   data |-> maskSensitiveInput(parseRequestData(c))]

\* toJSON / toString: the values the serialised error shows for the
\* Authorization header, the params and the request data
serialized(dt) ==
  {dt.headers.authorization, dt.params.password, dt.data.password}

\* no request has failed
InitNoFailure ==
  /\ failedConfig = NoConfig
  /\ errorData = NotBuilt

\* AkeneoError.fromAxiosError(e) on the failed request
buildAkeneoError ==
  /\ ~errorData.built
  /\ errorData' = fromAxiosErrorData(failedConfig)
  /\ UNCHANGED <<failedConfig, errVars, pageVars, ctorVars, authVars, reqVars>>

----------------------------------------------------------------------------
\* Specifications

\* new AkeneoAuth(config): no grant, grantPromise = Promise.resolve()
InitAuth ==
  /\ now = 0
  /\ grant = NoGrant
  /\ grantPromise = 0
  /\ nExch = 0
  /\ pstate = [p \in PromiseIds |-> IF p = 0 THEN "fulfilled" ELSE "unused"]
  /\ presp = [p \in PromiseIds |-> 0]
  /\ pstart = [p \in PromiseIds |-> NoGrant]
  /\ reactions = [p \in PromiseIds |-> <<>>]
  /\ mq = <<>>
  /\ pc = [i \in CallIds |-> "idle"]
  /\ awaiting = [i \in CallIds |-> 0]
  /\ result = [i \in CallIds |-> NoResult]
  /\ early = [i \in CallIds |-> FALSE]
  /\ late = [i \in CallIds |-> FALSE]
  /\ held = [i \in CallIds |-> FALSE]

InitRequests ==
  /\ rpc = [r \in ReqIds |-> "idle"]
  /\ optRetry = [r \in ReqIds |-> NoRetryConfig]
  /\ retryCount = [r \in ReqIds |-> 0]
  /\ lastError = [r \in ReqIds |-> NoError]
  /\ attempts = [r \in ReqIds |-> 0]
  /\ lastResponse = [r \in ReqIds |-> NoError]
  /\ only500 = [r \in ReqIds |-> TRUE]
  /\ raised = [r \in ReqIds |-> NoRaised]
  /\ retryConfig = [r \in ReqIds |-> NoRetryConfig]
  /\ delay = [r \in ReqIds |-> 0]
  /\ waited = [r \in ReqIds |-> 0]
  /\ body = [r \in ReqIds |-> 0]
  /\ n429 = [r \in ReqIds |-> 0]
  /\ optHeaders = [r \in ReqIds |-> NoHeaders]
  /\ sentHeaders = [r \in ReqIds |-> NoHeaders]
  /\ inflight = [r \in ReqIds |-> 0]
  /\ lastErrorAt = [r \in ReqIds |-> 0]
  /\ raisedAt = [r \in ReqIds |-> 0]

\* isRetryableError has not been called
InitPure ==
  /\ classified = NoError
  /\ retryable = "unknown"
  /\ transformed = NoError
  /\ thrown = NoError
  /\ InitNoPages
  /\ InitConstructed
  /\ InitNoFailure

\* an AkeneoAuth instance used directly by MaxCalls callers
Init ==
  /\ InitAuth
  /\ InitRequests
  /\ InitPure
  /\ configRetry = NoRetryConfig
  /\ retry = DEFAULT_RETRY_CONFIG

Next ==
  \/ \E i \in DirectCalls : getClientGrant(i)
  \/ ResumeThrow
  \/ ResumeCached
  \/ ResumeStartExchange
  \/ ResumeExchanged
  \/ ExchangeSucceeds
  \/ ExchangeFails
  \/ Tick

Spec == Init /\ [][Next]_vars

\* the grant a long-lived instance holds from an exchange made before the
\* modelled calls
PriorGrant == [id |-> MaxCalls + MaxReqs + 1, expiresAt |-> LongExpiresIn]

\* new AkeneoApi(config): this.retry = config.retry || DEFAULT_RETRY_CONFIG.
\* The instance is long-lived: its AkeneoAuth is fresh, or holds the grant of
\* an earlier exchange, or its latest exchange failed (promise 0 then stands
\* for the promise of that exchange, which grantPromise still refers to).
InitInstance(configs) ==
  /\ InitRequests
  /\ InitPure
  /\ configRetry \in configs \cup {NoRetryConfig}
  /\ retry = IF configRetry.defined THEN configRetry ELSE DEFAULT_RETRY_CONFIG
  /\ now = 0
  /\ grantPromise = 0
  /\ nExch = 0
  /\ \E prior \in {"fresh", "granted", "failed"} :
       /\ grant = IF prior = "granted" THEN PriorGrant ELSE NoGrant
       /\ pstate = [p \in PromiseIds |->
                      IF p # 0 THEN "unused"
                      ELSE IF prior = "failed" THEN "rejected" ELSE "fulfilled"]
  /\ presp = [p \in PromiseIds |-> 0]
  /\ pstart = [p \in PromiseIds |-> NoGrant]
  /\ reactions = [p \in PromiseIds |-> <<>>]
  /\ mq = <<>>
  /\ pc = [i \in CallIds |-> "idle"]
  /\ awaiting = [i \in CallIds |-> 0]
  /\ result = [i \in CallIds |-> NoResult]
  /\ early = [i \in CallIds |-> FALSE]
  /\ late = [i \in CallIds |-> FALSE]
  /\ held = [i \in CallIds |-> FALSE]

\* an instance configured with no retry option or a plain one
\* config.retry of the instance requests are made on: none, or the plain
\* configuration with the most retries (each request may still give any of the
\* RetryConfigs as its own option)
InstanceRetryConfigs == {c \in RetryConfigs : c.maxRetries = MaxRetriesBound}

InitApi == InitInstance(InstanceRetryConfigs)

NextApi ==
  \/ request(1)
  \/ \E r \in ReqIds : requestSend(r)
  \/ \E r \in ReqIds : requestGrantFailed(r)
  \/ \E r \in ReqIds : attemptSucceeds(r)
  \/ \E r \in ReqIds : attemptFails(r)
  \/ \E r \in ReqIds : delayElapsed(r)
  \/ ResumeThrow
  \/ ResumeCached
  \/ ResumeStartExchange
  \/ ResumeExchanged
  \/ ExchangeSucceeds
  \/ ExchangeFails

\* an AkeneoApi instance serving one request() call; the wall clock
\* stands still (a grant answered with ShortExpiresIn is within the lookahead
\* window from the start, so cache hits and refreshes both occur)
SpecApi == InitApi /\ [][NextApi]_vars

\* an instance constructed without a retry option
InitConcurrent == InitInstance({})

\* a request() call that gives no retry option or the plain one with the
\* most retries
requestEither(r) ==
  \E o \in InstanceRetryConfigs \cup {NoRetryConfig} :
    requestWith(r, o, NoHeaders)

NextConcurrent ==
  \/ requestEither(1)
  \/ requestEither(2)
  \/ \E r \in ReqIds : requestSend(r)
  \/ \E r \in ReqIds : requestGrantFailed(r)
  \/ \E r \in ReqIds : attemptSucceeds(r)
  \/ \E r \in ReqIds : attemptFails(r)
  \/ \E r \in ReqIds : delayElapsed(r)
  \/ ResumeThrow
  \/ ResumeCached
  \/ ResumeStartExchange
  \/ ResumeExchanged
  \/ ExchangeSucceeds
  \/ ExchangeFails

\* two request() calls on one AkeneoApi instance, the second issued at any
\* moment of the first (before, during or after its attempts and delays);
\* each call gives its own retry option
SpecConcurrent == InitConcurrent /\ [][NextConcurrent]_vars

\* an instance configured with any of the retry options
InitRetry == InitInstance(RichRetryConfigs)

NextRetry ==
  \/ requestAnyRetry(1)
  \/ \E r \in ReqIds : requestSend(r)
  \/ \E r \in ReqIds : requestGrantFailed(r)
  \/ \E r \in ReqIds : attemptSucceeds(r)
  \/ \E r \in ReqIds : attemptFails(r)
  \/ \E r \in ReqIds : delayElapsed(r)
  \/ ResumeThrow
  \/ ResumeCached
  \/ ResumeStartExchange
  \/ ResumeExchanged
  \/ ExchangeSucceeds
  \/ ExchangeFails

\* an AkeneoApi instance serving one request() call, with every retry option
\* at the client level and at the request level
SpecRetry == InitRetry /\ [][NextRetry]_vars

\* SpecRetry where what has been started completes: a continuation queued as
\* a microtask runs, a token exchange and a transport call are answered or
\* fail, a timer fires, and request() goes on once its grant is settled.
\* Whether request() is called at all is left to the caller.
FairRetry ==
  /\ WF_vars(ResumeThrow)
  /\ WF_vars(ResumeCached)
  /\ WF_vars(ResumeStartExchange)
  /\ WF_vars(ResumeExchanged)
  /\ WF_vars(ExchangeSucceeds \/ ExchangeFails)
  /\ \A r \in ReqIds :
       /\ WF_vars(requestSend(r))
       /\ WF_vars(requestGrantFailed(r))
       /\ WF_vars(attemptSucceeds(r) \/ attemptFails(r))
       /\ WF_vars(delayElapsed(r))

\* an instance configured with no retry option, with the override or with
\* jitter (a request may still give any of the retry options)
InitRetryLive == InitInstance({OverrideRetryConfig, JitterRetryConfig})

SpecRetryLive == InitRetryLive /\ [][NextRetry]_vars /\ FairRetry

\* isRetryableError is a public method: it is applied to one error value
InitClassify ==
  /\ InitAuth
  /\ InitRequests
  /\ configRetry = NoRetryConfig
  /\ retry = DEFAULT_RETRY_CONFIG
  /\ classified \in ErrorInputs
  /\ retryable = "unknown"
  /\ transformed = NoError
  /\ thrown = NoError
  /\ InitNoPages
  /\ InitConstructed
  /\ InitNoFailure

NextClassify ==
  \/ classify
  \/ transform
  \/ post

SpecClassify == InitClassify /\ [][NextClassify]_vars

\* appendRemainingPages is given the first page of a chain of at most
\* MaxPages pages
InitPages ==
  /\ InitAuth
  /\ InitRequests
  /\ configRetry = NoRetryConfig
  /\ retry = DEFAULT_RETRY_CONFIG
  /\ classified = NoError
  /\ retryable = "unknown"
  /\ transformed = NoError
  /\ thrown = NoError
  /\ \E chain \in PageChains \cup CyclicChains :
       /\ pages = chain
       /\ response = chain[1]
  /\ nextHref = 0
  /\ ppc = "idle"
  /\ fetched = <<>>
  /\ listOptions = NoListOptions
  /\ lpc = "idle"
  /\ InitConstructed
  /\ InitNoFailure

NextPages ==
  \/ getListOfProducts
  \/ listFirstReturns
  \/ listFirstFails
  \/ appendRemainingPages
  \/ followLinkReturns
  \/ followLinkFails

SpecPages == InitPages /\ [][NextPages]_vars

\* SpecPages where every follow-up request is answered or fails
SpecPagesLive ==
  InitPages /\ [][NextPages]_vars /\ WF_vars(followLinkReturns \/ followLinkFails)

\* `new AkeneoApi(config)` on any of the Configs, and one request on the
\* instance when there is one.  The instance is new, so no grant is cached
\* when its only request asks for one.
InitConstruct ==
  /\ InitAuth
  /\ InitRequests
  /\ configRetry \in RetryConfigs \cup {NoRetryConfig}
  /\ retry = DEFAULT_RETRY_CONFIG
  /\ classified = NoError
  /\ retryable = "unknown"
  /\ transformed = NoError
  /\ thrown = NoError
  /\ InitNoPages
  /\ apiConfig \in Configs
  /\ constructed = "no"
  /\ ctorError = NoError
  /\ InitNoFailure

NextConstruct ==
  \/ construct
  \/ requestConstructed
  \/ \E r \in ReqIds : requestSend(r)
  \/ \E r \in ReqIds : requestGrantFailed(r)
  \/ \E r \in ReqIds : attemptSucceeds(r)
  \/ \E r \in ReqIds : attemptFails(r)
  \/ \E r \in ReqIds : delayElapsed(r)
  \/ ResumeThrow
  \/ ResumeStartExchange
  \/ ResumeExchanged
  \/ ExchangeSucceeds
  \/ ExchangeFails

SpecConstruct == InitConstruct /\ [][NextConstruct]_vars

\* AkeneoError.fromAxiosError on each of the FailedConfigs
InitMask ==
  /\ InitAuth
  /\ InitRequests
  /\ configRetry = NoRetryConfig
  /\ retry = DEFAULT_RETRY_CONFIG
  /\ classified = NoError
  /\ retryable = "unknown"
  /\ transformed = NoError
  /\ thrown = NoError
  /\ InitNoPages
  /\ InitConstructed
  /\ failedConfig \in FailedConfigs
  /\ errorData = NotBuilt

NextMask == buildAkeneoError

SpecMask == InitMask /\ [][NextMask]_vars

----------------------------------------------------------------------------
\* Properties of the credential cache

NoExchangeCompleted == \A p \in PromiseIds \ {0} : ~Settled(p)
Resumed == mq # <<>> /\ mq' = Tail(mq)

\* C1: while no credential exchange has completed, however many
\* getClientGrant() calls have been issued (back-to-back ones included), the
\* exchange AkeneoAuthApi.getClientGrant has been invoked exactly once, as
\* soon as the issued calls have run up to their pending await.
C1_ExchangeInvokedOnce ==
  (NoExchangeCompleted /\ mq = <<>> /\ \E i \in CallIds : pc[i] # "idle")
    => nExch = 1

\* C2: all calls issued before any exchange completed, and that resolved,
\* resolved to one and the same AkeneoGrant instance.
C2_SameCredentialInstance ==
  \A i, j \in CallIds :
    (early[i] /\ early[j] /\ pc[i] = "returned" /\ pc[j] = "returned")
      => result[i].grant.id = result[j].grant.id

\* C3: at most one credential exchange is in flight in every reachable state.
C3_AtMostOneExchangeInFlight == Cardinality(InFlight) <= 1

\* C4: a call issued after a credential exchange has failed starts a new
\* exchange: it rejects only if the exchange it started itself failed, never
\* with the failure that happened before it was issued.
C4_RetryAfterFailure ==
  \A i \in CallIds :
    (late[i] /\ pc[i] = "rejected") => result[i].via = "exchange"

\* C5: when an exchange has failed, every call awaiting that exchange (the
\* one that started it and the ones suspended on it) rejects with that
\* failure: until it has, it is scheduled in the microtask queue (it does not
\* hang), and it never resolves with a grant.
C5_FailureReachesEveryWaiter ==
  \A i \in CallIds :
    pstate[awaiting[i]] = "rejected" =>
      /\ pc[i] \in {"await1", "await2"} => \E k \in 1..Len(mq) : mq[k] = i
      /\ pc[i] \in {"returned", "rejected"} =>
           /\ pc[i] = "rejected"
           /\ result[i].kind = "error"
           /\ result[i].of = awaiting[i]

\* a failed exchange has rejected the call that started it and a call that
\* arrived while it was pending
C5_Witness ==
  \E i, j \in CallIds :
    /\ pc[i] = "rejected" /\ result[i].via = "exchange"
    /\ pc[j] = "rejected" /\ result[j].via = "wait" /\ ~late[j]
    /\ result[i].of = result[j].of

\* C6: when a credential exchange fails, the held grant is exactly the one
\* that was held when that exchange was started.
C6_FailureLeavesGrant ==
  [][\A p \in PromiseIds :
       (pstate[p] = "pending" /\ pstate'[p] = "rejected") => grant' = pstart[p]]_vars

\* C7: getClientGrant() never returns a held grant that expires within
\* refreshIfWithinSecs of the time of the return: a call resolves from the
\* cache only with the held grant and only when it expires no sooner than
\* refreshIfWithinSecs from now; a call that finds no grant, or one expiring
\* within the window, resolves only after the exchange it awaited itself.
C7_NoStaleGrantReturned ==
  [][\A i \in CallIds :
       (pc[i] # "returned" /\ pc'[i] = "returned") =>
          /\ result'[i].via = "cache" =>
               /\ grant # NoGrant
               /\ grant.expiresAt >= now + refreshIfWithinSecs
               /\ result'[i].grant = grant
          /\ (grant = NoGrant \/ grant.expiresAt < now + refreshIfWithinSecs) =>
               /\ pc[i] = "await2"
               /\ pstate[awaiting[i]] = "fulfilled"
               /\ result'[i].via = "exchange"
               /\ result'[i].of = awaiting[i]]_vars

\* a held grant has been returned from the cache after the clock advanced,
\* and a call that found the held grant expiring has exchanged it
C7_Witness ==
  /\ now > 0
  /\ \E i \in CallIds :
       /\ pc[i] = "returned" /\ result[i].via = "cache"
       /\ result[i].grant.expiresAt < now + refreshIfWithinSecs
  /\ \E j \in CallIds :
       /\ pc[j] = "returned" /\ result[j].via = "exchange"
       /\ pstart[result[j].of] # NoGrant

\* C8: a call issued, and resumed, while a grant is held that does not expire
\* within the window and no exchange is in flight returns that held grant and
\* invokes no exchange.
C8_ReturnsHeldGrant ==
  [][( /\ Resumed
       /\ pc[Head(mq)] = "await1"
       /\ held[Head(mq)]
       /\ InFlight = {}
       /\ grant # NoGrant
       /\ grant.expiresAt >= now + refreshIfWithinSecs )
       => /\ pc'[Head(mq)] = "returned"
          /\ result'[Head(mq)].grant = grant
          /\ nExch' = nExch]_vars

----------------------------------------------------------------------------
\* Properties of the request executor

EffectiveMaxRetries(r) == getRetryConfig(optRetry[r]).maxRetries

\* C9: a request() call with effective maxRetries = k whose every transport
\* attempt is answered 500 makes at most k+1 attempts, waits for a retry only
\* while fewer than k+1 have been made, and raises the AkeneoError with
\* status 500 after exactly k+1 attempts.
C9_AttemptsOnServerError ==
  \A r \in ReqIds :
    (only500[r] /\ attempts[r] >= 1) =>
      /\ attempts[r] <= EffectiveMaxRetries(r) + 1
      /\ rpc[r] \in {"attempt", "delay", "raised"}
      /\ rpc[r] = "delay" => attempts[r] <= EffectiveMaxRetries(r)
      /\ rpc[r] = "raised" =>
           /\ attempts[r] = EffectiveMaxRetries(r) + 1
           /\ raised[r] = transformError(AxiosStatusError(500))

\* a call with the largest maxRetries has raised after maxRetries + 1
\* attempts that were all answered 500
C9_Witness ==
  \E r \in ReqIds :
    /\ rpc[r] = "raised" /\ only500[r]
    /\ EffectiveMaxRetries(r) = MaxRetriesBound
    /\ attempts[r] = MaxRetriesBound + 1

\* a received response whose status is neither retryable nor 429
TerminalResponse(e) ==
  /\ e.isAxiosError /\ e.request /\ e.response
  /\ e.status \notin {500, 501, 502, 503, 504, 429}

\* C10: once a transport attempt was answered with a status that is neither
\* in {500..504} nor 429, the call has raised the converted error and makes
\* no further attempt, whatever the retry policy; when that was the first
\* response, exactly one attempt was made.
C10_OtherStatusIsTerminal ==
  \A r \in ReqIds :
    TerminalResponse(lastResponse[r]) =>
      /\ rpc[r] = "raised"
      /\ raised[r].isAkeneoError /\ ~raised[r].auth
      /\ raised[r].status = lastResponse[r].status
      /\ attempts[r] = retryCount[r] + 1

\* a call that allows retries has raised after one attempt answered 400, and
\* another run raised a 400 that followed a retried failure
C10_Witness ==
  \E r \in ReqIds :
    /\ rpc[r] = "raised" /\ lastResponse[r] = AxiosStatusError(400)
    /\ EffectiveMaxRetries(r) = MaxRetriesBound
    /\ attempts[r] = 1

----------------------------------------------------------------------------
\* Properties of the error classification

\* C11: isRetryableError(e) is true exactly when e is not an axios error, or
\* has no request, or has no response, or its response status is one of
\* 500, 501, 502, 503, 504; so it is false for an axios error with a request
\* and a response of any other status.
C11_RetryableExactlyWhen ==
  retryable # "unknown" =>
    (retryable = "yes" <=>
       \/ ~classified.isAxiosError
       \/ ~classified.request
       \/ ~classified.response
       \/ classified.status \in {500, 501, 502, 503, 504})

\* an axios error with a request and a response of status 400 was classified
\* as not retryable
C11_Witness ==
  /\ retryable = "no"
  /\ classified.isAxiosError /\ classified.request /\ classified.response
  /\ classified.status = 400

\* C12 as stated: an axios error is retryable on the ground of a missing
\* marker only when it lacks both the request and the response, and an error
\* that has a response is classified by the status of the response alone.
C12_OnlyWhenBothMissing ==
  (retryable # "unknown" /\ classified.isAxiosError) =>
    /\ (/\ retryable = "yes"
        /\ ~(classified.response /\
             classified.status \in {500, 501, 502, 503, 504}))
         => (~classified.request /\ ~classified.response)
    /\ classified.response =>
         (retryable = "yes" <=>
            classified.status \in {500, 501, 502, 503, 504})

\* C12, amended: an axios error that lacks the request or the response (either
\* one) is retryable; an axios error that has both is classified by the
\* status of the response alone.
C12_WhenEitherMissing ==
  (retryable # "unknown" /\ classified.isAxiosError) =>
    /\ (~classified.request \/ ~classified.response) => retryable = "yes"
    /\ (classified.request /\ classified.response) =>
         (retryable = "yes" <=>
            classified.status \in {500, 501, 502, 503, 504})

\* an axios error with a request and no response (a timeout) was classified
\* as retryable
C12_Witness ==
  /\ retryable = "yes"
  /\ classified.isAxiosError /\ classified.request /\ ~classified.response

----------------------------------------------------------------------------
\* Properties of the retry loop

\* C13: once an attempt of a request() call has succeeded, the call has
\* returned the body of that attempt and that attempt stays its last one,
\* whatever the retry budget: the attempts made are the failed ones before it
\* plus one (one attempt when the first response is 200, two when one 500
\* came before the 200).
C13_ReturnsOnFirstSuccess ==
  \A r \in ReqIds :
    (body[r] # 0 \/ lastResponse[r] = Success \/ rpc[r] = "returned") =>
      /\ rpc[r] = "returned"
      /\ lastResponse[r] = Success
      /\ body[r] = attempts[r]
      /\ attempts[r] = retryCount[r] + 1
      /\ (lastError[r] = NoError) => attempts[r] = 1

\* a call allowed four retries returned after one 500 and one 200
C13_Witness ==
  \E r \in ReqIds :
    /\ rpc[r] = "returned" /\ attempts[r] = 2 /\ body[r] = 2
    /\ lastError[r] = AxiosStatusError(500)
    /\ retryConfig[r].maxRetries = OverrideMaxRetries

DEFAULT_MAX_429_RETRIES == 5
DEFAULT_429_DELAY_MS == 5000

Is429(e) == e.isAxiosError /\ e.response /\ e.status = 429
Max429Retries(r) ==
  IF retryConfig[r].max429Retries = -1 THEN DEFAULT_MAX_429_RETRIES
  ELSE retryConfig[r].max429Retries
Delay429(e) ==
  IF e.retryAfter > 0 THEN e.retryAfter * 1000 ELSE DEFAULT_429_DELAY_MS

\* C15: 429 responses are retried against max429Retries only: while no more
\* than max429Retries responses were 429, a call answered 429 goes on to
\* another attempt (also when maxRetries = 0), and no attempt is counted both
\* in retryCount, which is what is compared with maxRetries, and as a 429.
C15_SeparateBudgets ==
  \A r \in ReqIds :
    attempts[r] >= 1 =>
      /\ (Is429(lastResponse[r]) /\ n429[r] <= Max429Retries(r))
           => rpc[r] \in {"delay", "attempt"}
      /\ retryCount[r] + n429[r] <= attempts[r]

\* C16: the wait before the attempt that follows a 429 response is the
\* Retry-After value times 1000 ms, or 5000 ms without the header, whatever
\* delayMs, the retry count and the jitter flag are.
C16_RetryAfterDelay ==
  \A r \in ReqIds :
    (Is429(lastResponse[r]) /\ n429[r] <= Max429Retries(r)) =>
      /\ rpc[r] \in {"delay", "attempt"}
      /\ delay[r] = Delay429(lastResponse[r])

\* C17: with max429Retries left undefined, a call whose every response so far
\* was 429 raises only after six attempts, and then an error of status 429;
\* its sixth attempt can still succeed.
C17_DefaultMax429Retries ==
  \A r \in ReqIds :
    ( /\ retryConfig[r].max429Retries = -1
      /\ attempts[r] >= 1
      /\ n429[r] >= attempts[r] - 1 ) =>
      /\ attempts[r] <= DEFAULT_MAX_429_RETRIES + 1
      /\ (rpc[r] = "raised" /\ n429[r] = attempts[r]) =>
           /\ attempts[r] = DEFAULT_MAX_429_RETRIES + 1
           /\ raised[r].isAkeneoError /\ raised[r].status = 429
      /\ (lastResponse[r] = Success) => rpc[r] = "returned"

\* C18: with max429Retries = 4, a call whose responses so far were all 429,
\* four of them at most, has not raised, and it has waited the 429 delay
\* once for every retry it made.
C18_FourRetriesOn429 ==
  \A r \in ReqIds :
    ( /\ retryConfig[r].max429Retries = 4
      /\ attempts[r] >= 1
      /\ n429[r] = attempts[r]
      /\ n429[r] <= 4 ) =>
      /\ rpc[r] # "raised"
      /\ waited[r] >= (attempts[r] - 1) * Delay429(lastResponse[r])

\* C19: with jitter off, the delay before the n-th retry is exactly
\* delayMs * 2^(n-1), and the delays of the retries made add up accordingly
\* (300 + 600 = 900 for two retries with delayMs 300, 500 + 1000 + 2000 =
\* 3500 for three retries with delayMs 500).
C19_ExponentialDelay ==
  \A r \in ReqIds :
    (attempts[r] >= 1 /\ ~retryConfig[r].jitter) =>
      /\ rpc[r] = "delay" =>
           delay[r] = retryConfig[r].delayMs * Pow2(retryCount[r] - 1)
      /\ waited[r] = retryConfig[r].delayMs * (Pow2(attempts[r] - 1) - 1)
      /\ (retryConfig[r].delayMs = 300 /\ attempts[r] = 3) => waited[r] = 900
      /\ (retryConfig[r].delayMs = 500 /\ attempts[r] = 4) => waited[r] = 3500

\* three retries were made under the method level override: the call waited
\* delayMs * (1 + 2 + 4) in total
C19_Witness ==
  \E r \in ReqIds :
    /\ retryConfig[r] = OverrideRetryConfig
    /\ attempts[r] = 4
    /\ waited[r] = OverrideDelayMs * 7

\* the interval calculateDelay draws from with jitter on
JitterLow(n, config) ==
  CHOOSE d \in calculateDelay(n, config) :
    \A e \in calculateDelay(n, config) : d <= e
JitterHigh(n, config) ==
  CHOOSE d \in calculateDelay(n, config) :
    \A e \in calculateDelay(n, config) : d >= e
JitterWidth(n, config) == JitterHigh(n, config) - JitterLow(n, config)

\* C20: with jitter on, the delay before the n-th retry lies between 0 and
\* delayMs * 2^(n-1), and the width of the interval it is drawn from, divided
\* by delayMs * 2^(n-1), does not grow from one retry to the next.
C20_JitterDelay ==
  \A r \in ReqIds :
    (attempts[r] >= 1 /\ retryConfig[r].jitter) =>
      /\ rpc[r] = "delay" =>
           /\ delay[r] >= 0
           /\ delay[r] <= retryConfig[r].delayMs * Pow2(retryCount[r] - 1)
      /\ \A n \in 1..retryConfig[r].maxRetries :
           JitterWidth(n + 1, retryConfig[r]) *
               (retryConfig[r].delayMs * Pow2(n - 1))
             <= JitterWidth(n, retryConfig[r]) *
               (retryConfig[r].delayMs * Pow2(n))

\* a call with jitter waits for its second retry with a delay below the
\* exponential one
C20_Witness ==
  \E r \in ReqIds :
    /\ rpc[r] = "delay" /\ retryConfig[r].jitter
    /\ retryCount[r] = 2
    /\ delay[r] < retryConfig[r].delayMs * 2

----------------------------------------------------------------------------
\* Properties of the request options and of the raised error

\* the getClientGrant() calls request r has made
GrantCallsOf(r) ==
  Cardinality({i \in CallIds : i = CallOf(r) /\ pc[i] # "idle"})

\* C21: every transport attempt of a request() call, the first and each
\* retry, is preceded by a getClientGrant() call of its own: the call has
\* fetched the grant as many times as it has made attempts.
C21_GrantFetchedPerAttempt ==
  \A r \in ReqIds :
    attempts[r] >= 1 => GrantCallsOf(r) = attempts[r]

\* C22: whatever headers the caller supplies, the Authorization header of the
\* request is `Bearer` with the token of the grant returned by
\* getClientGrant(), and the content-type is not the caller's.
C22_CallerHeadersNeverOverride ==
  \A r \in ReqIds :
    attempts[r] >= 1 =>
      /\ sentHeaders[r].Authorization =
           <<"Bearer", result[CallOf(r)].grant.id>>
      /\ sentHeaders[r].ContentType = Absent

\* the retry budget of request r is used up
BudgetExhausted(r) ==
  /\ rpc[r] = "raised" /\ attempts[r] >= 1
  /\ retryCount[r] > retryConfig[r].maxRetries

\* C23 as stated: when the retry budget is used up, request() throws the
\* failure of its final attempt, and what it throws is an AkeneoError
\* whatever the failure was.
C23_RaisesAkeneoError ==
  \A r \in ReqIds :
    BudgetExhausted(r) =>
      /\ raisedAt[r] = attempts[r]
      /\ raised[r].isAkeneoError

\* C23, amended: when the retry budget is used up, request() throws the
\* failure of its final attempt: converted to an AkeneoError (with the
\* message of the failure and the status of its response) when the failure is
\* an axios error, and unchanged, hence not an AkeneoError, when it is not.
C23_RaisesFinalFailure ==
  \A r \in ReqIds :
    BudgetExhausted(r) =>
      /\ raisedAt[r] = attempts[r]
      /\ lastResponse[r].isAxiosError =>
           /\ raised[r].isAkeneoError
           /\ raised[r].message = lastResponse[r].message
           /\ raised[r].status =
                (IF lastResponse[r].response THEN lastResponse[r].status ELSE 0)
      /\ ~lastResponse[r].isAxiosError =>
           /\ raised[r] = lastResponse[r]
           /\ ~raised[r].isAkeneoError

\* a call used up its budget: its second attempt failed with a value that is
\* not an axios error, after a first attempt answered 500
C23_Witness ==
  \E r \in ReqIds :
    /\ BudgetExhausted(r)
    /\ attempts[r] = 2
    /\ ~lastResponse[r].isAxiosError
    /\ only500[r] = FALSE /\ n429[r] = 0 /\ raisedAt[r] = 2

\* C30: the attempts of a request() call are sequential: at most one
\* transport call of it is in flight, and a further attempt starts only when
\* none is in flight, the latest one has failed and the retry delay computed
\* for it has elapsed.
C30_AttemptsSequential ==
  [][\A r \in ReqIds :
       /\ inflight'[r] <= 1
       /\ attempts'[r] \in {attempts[r], attempts[r] + 1}
       /\ attempts'[r] = attempts[r] + 1 =>
            /\ inflight[r] = 0
            /\ \/ attempts[r] = 0
               \/ /\ rpc[r] = "delay"
                  /\ lastResponse[r] \in TransportErrors
                  /\ waited'[r] = waited[r] + delay[r]]_vars

\* the third attempt of a call is in flight
C30_Witness ==
  \E r \in ReqIds : attempts[r] = 3 /\ inflight[r] = 1 /\ rpc[r] = "attempt"

----------------------------------------------------------------------------
\* Properties of the error conversion

\* C24: transformError returns an error that is not an axios error unchanged,
\* and converts an axios error into an AkeneoError whose status is the status
\* of the response of the error (undefined, here 0, without a response).
C24_TransformError ==
  transformed # NoError =>
    /\ ~classified.isAxiosError => transformed = classified
    /\ classified.isAxiosError =>
         /\ transformed.isAkeneoError
         /\ ~transformed.isAxiosError
         /\ transformed.status =
              (IF classified.response THEN classified.status ELSE 0)

\* an axios error with a response of status 404 was converted, and its
\* status kept
C24_Witness ==
  /\ transformed.isAkeneoError
  /\ classified.isAxiosError /\ classified.response
  /\ classified.status = 404 /\ transformed.status = 404

\* C28: a failure of the transport call of AkeneoAuthApi.post (an axios
\* error: a non-2xx response, a timeout, no response) is thrown as an
\* AkeneoError with the message of the transport error and, when a response
\* was received, its status.
C28_ExchangeFailureConverted ==
  (thrown # NoError /\ classified.isAxiosError) =>
    /\ thrown.isAkeneoError
    /\ thrown.message = classified.message
    /\ classified.response => thrown.status = classified.status
    /\ ~classified.response => thrown.status = 0

\* a timeout of the exchange (an axios error with a request and no response)
\* was thrown as an AkeneoError without a status
C28_Witness ==
  /\ thrown.isAkeneoError /\ thrown.status = 0
  /\ thrown.message = "timeout exceeded"
  /\ classified.isAxiosError /\ classified.request /\ ~classified.response

----------------------------------------------------------------------------
\* Properties of the grant object

\* C29: the AkeneoGrant constructed at time t from a response with
\* expires_in = e has expiresAt = t + e, and the expiresAt of a grant object,
\* held or returned, never changes afterwards.
C29_ExpiresAtFixed ==
  [][ /\ \A i \in CallIds :
           (pc[i] = "await2" /\ pc'[i] = "returned") =>
              /\ result'[i].grant.expiresAt = now + presp[awaiting[i]]
              /\ grant' = result'[i].grant
      /\ \A i \in CallIds :
           pc[i] = "returned" => result'[i].grant = result[i].grant
      /\ (grant'.id = grant.id) => grant'.expiresAt = grant.expiresAt ]_vars

\* a grant constructed after the clock had advanced is still held, with the
\* same expiresAt, at the end of the run
C29_Witness ==
  /\ now = MaxTime
  /\ \E i \in CallIds :
       /\ pc[i] = "returned" /\ result[i].via = "exchange"
       /\ result[i].grant.expiresAt > LongExpiresIn
       /\ result[i].grant.expiresAt < MaxTime + LongExpiresIn
       /\ grant = result[i].grant


----------------------------------------------------------------------------
\* C25

RECURSIVE ItemsOfPages(_, _)
\* the items of the first n pages of a chain, in page order
ItemsOfPages(chain, n) ==
  IF n = 0 THEN <<>> ELSE ItemsOfPages(chain, n - 1) \o chain[n].items

\* C25: when appendRemainingPages completes on a first page followed by k
\* further pages, the response's items are the concatenation of the items of
\* all k + 1 pages in page order, and its _links hold only `first`, equal to
\* the first link the response had.
C25_AllPagesAppended ==
  ppc = "done" =>
    /\ response.items = ItemsOfPages(pages, Len(pages))
    /\ response.links.first = pages[1].links.first
    /\ response.links.self = 0
    /\ response.links.next = 0

C25_Witness ==
  /\ ppc = "done"
  /\ Len(pages) = 3
  /\ \A j \in 1..3 : pages[j].items # <<>>
  /\ pages[1].items # pages[2].items
  /\ Len(response.items) > Len(pages[1].items) + Len(pages[2].items)


----------------------------------------------------------------------------
\* C26

\* the configurations the claim names
InvalidConfig(c) ==
  \/ ~c.present
  \/ c.endpoint \in {"empty", "nonstring", "badurl"}
  \/ \E f \in {c.username, c.password, c.clientId, c.clientSecret} :
       f \in {"empty", "nonstring"}

\* no token exchange and no resource request has been issued
NoNetworkActivity ==
  /\ nExch = 0
  /\ \A p \in PromiseIds : p # 0 => pstate[p] = "unused"
  /\ \A i \in CallIds : pc[i] = "idle"
  /\ mq = <<>>
  /\ \A r \in ReqIds : rpc[r] = "idle" /\ attempts[r] = 0 /\ inflight[r] = 0

\* C26: constructing an AkeneoApi with a configuration that is missing, or
\* whose endpoint, username, password, clientId or clientSecret is empty or
\* not a string, or whose endpoint is not a valid URL, throws an AkeneoError
\* out of the constructor; no token exchange and no resource request is
\* issued before or after that failure, and nothing is tried again.
C26_InvalidConfigThrows ==
  InvalidConfig(apiConfig) =>
    /\ constructed \in {"no", "threw"}
    /\ constructed = "threw" =>
         ctorError.isAkeneoError /\ ~ctorError.isAxiosError
    /\ constructed = "no" => ctorError = NoError
    /\ NoNetworkActivity

C26_Witness ==
  /\ constructed = "threw"
  /\ apiConfig.present
  /\ apiConfig.endpoint = "badurl"
  /\ apiConfig.username = "string" /\ apiConfig.password = "string"
  /\ apiConfig.clientId = "string" /\ apiConfig.clientSecret = "string"
  /\ ctorError.isAkeneoError


----------------------------------------------------------------------------
\* C27

----------------------------------------------------------------------------
\* C31

\* C31: in every request() call no delay precedes the first attempt, and
\* every later attempt is preceded by exactly one delay, computed by
\* calculateDelay from the number of failed attempts so far and the effective
\* retry configuration, that is waited between the failure of the previous
\* attempt and the next transport call.
C31_OneDelayBeforeLaterAttempts ==
  [][ \A r \in ReqIds :
        /\ (attempts'[r] # attempts[r]) =>
             IF attempts[r] = 0
               THEN /\ rpc[r] = "grant"
                    /\ attempts'[r] = 1
                    /\ waited[r] = 0 /\ waited'[r] = 0
               ELSE /\ rpc[r] = "delay"
                    /\ inflight[r] = 0
                    /\ attempts'[r] = attempts[r] + 1
                    /\ lastErrorAt[r] = attempts[r]
                    /\ retryCount[r] = attempts[r]
                    /\ delay[r] \in calculateDelay(retryCount[r], retryConfig[r])
                    /\ retryConfig[r] = getRetryConfig(optRetry[r])
                    /\ waited'[r] = waited[r] + delay[r]
        /\ (waited'[r] # waited[r]) => attempts'[r] = attempts[r] + 1
        /\ (rpc[r] # "delay" /\ rpc'[r] = "delay") =>
             /\ rpc[r] = "attempt"
             /\ lastErrorAt'[r] = attempts[r]
             /\ attempts'[r] = attempts[r] ]_vars

\* the third attempt of a call is in flight after two delays
C31_Witness ==
  \E r \in ReqIds :
    /\ rpc[r] = "attempt"
    /\ attempts[r] = 3
    /\ retryConfig[r].delayMs = BaseDelayMs
    /\ waited[r] = 3 * BaseDelayMs


----------------------------------------------------------------------------
\* C32

\* the transport attempts a call may make at most
AttemptBudget(r) == 1 + retryConfig[r].maxRetries + Max429Retries(r)

\* C32: every request() call eventually returns or raises, provided every
\* token acquisition, transport call and delay completes: whatever the
\* responses are it makes at most 1 + maxRetries + max429Retries transport
\* attempts, and at most 1 + maxRetries when no response is a 429.
C32_Terminates ==
  /\ [](\A r \in ReqIds :
          /\ attempts[r] <= AttemptBudget(r)
          /\ n429[r] = 0 => attempts[r] <= 1 + retryConfig[r].maxRetries)
  /\ \A r \in ReqIds :
       (rpc[r] # "idle") ~> (rpc[r] \in {"returned", "raised"})

\* a call ended after as many attempts as maxRetries allows, the last one
\* answered 429
C32_Witness ==
  \E r \in ReqIds :
    /\ rpc[r] = "raised"
    /\ retryConfig[r].maxRetries = MaxRetriesBound
    /\ attempts[r] = 1 + MaxRetriesBound
    /\ n429[r] = 1


----------------------------------------------------------------------------
\* C33

\* C33: an AkeneoAuth instance holds at most one current grant; the held
\* grant changes only when a call resumes from a token exchange that
\* completed successfully, and then it is replaced by a grant object
\* constructed in that step: no existing grant object is changed and the
\* field is never set back to absent.
C33_GrantReplacedOnExchange ==
  [][ /\ (grant' # grant) =>
           /\ mq # <<>>
           /\ pc[Head(mq)] = "await2"
           /\ pstate[awaiting[Head(mq)]] = "fulfilled"
           /\ pc'[Head(mq)] = "returned"
           /\ grant' = result'[Head(mq)].grant
           /\ grant' # NoGrant
           /\ grant'.id # grant.id
           /\ \A j \in CallIds : result[j].grant.id # grant'.id
      /\ \A j \in CallIds :
           result[j].kind = "grant" => result'[j] = result[j] ]_vars

\* the held grant has been replaced: the grant an earlier call was given is
\* still what it was, and a newer object is held
C33_Witness ==
  \E i, j \in CallIds :
    /\ i # j
    /\ result[i].via = "exchange" /\ result[j].via = "exchange"
    /\ result[i].kind = "grant" /\ result[j].kind = "grant"
    /\ grant = result[j].grant
    /\ result[i].grant.id # grant.id
    /\ result[i].grant.expiresAt # grant.expiresAt


----------------------------------------------------------------------------
\* C34

\* the urls of the follow-up requests issued so far
FetchedUrls == [k \in 1..Len(fetched) |-> fetched[k].url]

\* the next links encountered so far: the one of the initial result and those
\* of the pages the answered follow-up requests returned
NextLinksSeen(n) ==
  [k \in 1..n |-> IF k = 1 THEN nextHrefOf(pages[1])
                  ELSE nextHrefOf(pages[fetched[k - 1].url])]

\* what C34 says of every state
OneRequestPerNextLink ==
  /\ \A k \in 1..Len(fetched) :
       /\ fetched[k].method = "GET"
       /\ fetched[k].url = NextLinksSeen(k)[k]
       /\ fetched[k].url # 0
  /\ (ppc = "loop") => (nextHref = fetched[Len(fetched)].url)
  /\ (ppc = "done") =>
       /\ Ends(pages)
       /\ FetchedUrls = [k \in 1..(Len(pages) - 1) |-> k + 1]
       /\ nextHref = 0
       /\ (Len(pages) = 1) =>
            /\ fetched = <<>>
            /\ response.items = pages[1].items
            /\ response.links = onlyFirstLink(pages[1].links)
  /\ ~Ends(pages) => ppc # "done"

\* C34: appendRemainingPages issues exactly one GET per `next` link it
\* encounters, to that link's URL, and stops at the first page without a
\* `next` link: with k further pages it makes exactly k follow-up requests
\* and terminates; with no `next` link on the initial result it makes no
\* request, leaves the items unchanged and still reduces _links to `first`;
\* it completes only if the server returned a page without `next`.
C34_OneRequestPerNextLink ==
  /\ []OneRequestPerNextLink
  /\ (ppc = "loop" /\ Ends(pages)) ~> (ppc \in {"done", "failed"})

\* a run over three pages completed after two follow-up requests
C34_Witness ==
  /\ ppc = "done"
  /\ Len(pages) = 3
  /\ Len(fetched) = 2
  /\ fetched[1].url = 2 /\ fetched[2].url = 3


----------------------------------------------------------------------------
\* C38

RECURSIVE ItemsOfFetched(_)
\* the items of the initial result followed by those of the pages the first
\* n follow-up requests returned
ItemsOfFetched(n) ==
  IF n = 0 THEN pages[1].items
  ELSE ItemsOfFetched(n - 1) \o pages[fetched[n].url].items


\* C38: when a follow-up page request fails while appendRemainingPages is
\* running, the error leaves appendRemainingPages; the response passed in
\* keeps the items of every page fetched before the failure and its _links
\* are as they were, not reduced to `first`; a list call with fetchAll then
\* rejects with the error and returns no result.
C38_FailurePropagates ==
  /\ (ppc = "failed") =>
       /\ fetched # <<>>
       /\ response.items = ItemsOfFetched(Len(fetched) - 1)
       /\ response.links = pages[1].links
       /\ response.links.next # 0
       /\ lpc \in {"idle", "raised"}
  /\ (lpc = "paging") => (ppc = "loop")
  /\ (lpc = "returned" /\ listOptions.fetchAll) => (ppc = "done")
  /\ (lpc = "raised") => (ppc \in {"idle", "failed"})

\* the second follow-up request of a list call with fetchAll failed after
\* the first one had brought items
C38_Witness ==
  /\ ppc = "failed"
  /\ lpc = "raised"
  /\ Len(pages) = 3
  /\ Len(fetched) = 2
  /\ pages[2].items # <<>>
  /\ Len(response.items) > Len(pages[1].items)


----------------------------------------------------------------------------
\* C39

\* C39: every follow-up page request of appendRemainingPages is a request()
\* call whose options carry neither the retry option nor the query
\* parameters of the list call, so it runs under the retry configuration of
\* the instance: a retry option given to the list call does not apply to the
\* follow-up pages.
C39_FollowUpUsesInstanceRetry ==
  \A k \in 1..Len(fetched) :
    /\ ~fetched[k].retry.defined
    /\ getRetryConfig(fetched[k].retry) = retry
    /\ ~fetched[k].params

\* a list call with fetchAll, its own retry option and query parameters has
\* issued two follow-up requests
C39_Witness ==
  /\ lpc \in {"paging", "returned"}
  /\ listOptions.fetchAll
  /\ listOptions.retry = OverrideRetryConfig
  /\ listOptions.params
  /\ Len(fetched) = 2
  /\ getRetryConfig(listOptions.retry).maxRetries = OverrideMaxRetries
  /\ getRetryConfig(fetched[2].retry).maxRetries = 0


----------------------------------------------------------------------------
\* C36: when an attempt fails with a retryable error and a later attempt of
\* the same call fails with a terminal (non-retryable) error, the call stops
\* at that attempt, whatever retries remain, and throws the transformed error
\* of that later attempt, not the retryable error kept in lastError; a call
\* that has thrown makes no further attempt.
TerminalAfterRetryable(r) ==
  /\ rpc[r] = "raised"
  /\ lastErrorAt[r] >= 1
  /\ ~lastResponse[r].none
  /\ ~isRetryableError(lastResponse[r])
C36_TerminalAfterRetryable ==
  /\ [](\A r \in ReqIds :
          TerminalAfterRetryable(r) =>
            /\ raised[r] = transformError(lastResponse[r])
            /\ raisedAt[r] = attempts[r]
            /\ lastErrorAt[r] < attempts[r]
            /\ attempts[r] = retryCount[r] + 1
            /\ inflight[r] = 0)
  /\ [][\A r \in ReqIds :
          rpc[r] = "raised" =>
            /\ rpc'[r] = "raised"
            /\ attempts'[r] = attempts[r]
            /\ raised'[r] = raised[r]]_vars
\* a 500 on the first attempt, then a 400 on the second, under a retry
\* configuration with maxRetries = 4: the call has thrown the 400 after two
\* attempts
C36_Witness ==
  \E r \in ReqIds :
    /\ TerminalAfterRetryable(r)
    /\ retryConfig[r].maxRetries = OverrideMaxRetries
    /\ lastError[r] = AxiosStatusError(500)
    /\ lastErrorAt[r] = 1
    /\ attempts[r] = 2
    /\ raised[r] = fromAxiosError(AxiosStatusError(400))


----------------------------------------------------------------------------
\* C37: when the getClientGrant() call of a request() rejects, request()
\* rejects with that error without having made any transport call or waited
\* for any retry delay, whatever maxRetries is; the retry loop is never
\* entered, so the call invokes getClientGrant() once and no further token
\* exchange is started on its behalf.
C37_GrantFailureRaises ==
  /\ [](\A r \in ReqIds :
          pc[CallOf(r)] = "rejected" =>
            /\ rpc[r] \in {"grant", "raised"}
            /\ attempts[r] = 0
            /\ inflight[r] = 0
            /\ retryCount[r] = 0
            /\ waited[r] = 0
            /\ rpc[r] = "raised" => raised[r].auth /\ raisedAt[r] = 0)
  /\ [][\A r \in ReqIds :
          pc[CallOf(r)] = "rejected" =>
            /\ pc'[CallOf(r)] = "rejected"
            /\ nExch' = nExch
            /\ grantPromise' = grantPromise]_vars
\* the token exchange started for a request() with maxRetries = 4 failed:
\* the call has thrown after one exchange and no transport call
C37_Witness ==
  \E r \in ReqIds :
    /\ rpc[r] = "raised"
    /\ raised[r].auth
    /\ optRetry[r] = OverrideRetryConfig
    /\ nExch = 1
    /\ pstate[1] = "rejected"
    /\ attempts[r] = 0


----------------------------------------------------------------------------
\* C40: request() changes the state of AkeneoAuth only by calling
\* getClientGrant(): a step of request() (issuing the call, sending an
\* attempt, an answer of any status, 401 and 403 included, a retry delay)
\* leaves the held grant, grantPromise and the exchanges as they are, so a
\* request() issued while the held grant is outside the lookahead window is
\* given that same grant from the cache and sends it.
GrantReused(r) ==
  /\ result[CallOf(r)].kind = "grant"
  /\ result[CallOf(r)].via = "cache"
  /\ result[CallOf(r)].grant = grant
  /\ sentHeaders[r] = RequestHeaders(grant, optHeaders[r])
----------------------------------------------------------------------------
\* C35: request() calls running concurrently on one instance are independent.
\* Every step changes the local state of at most one call; each call that
\* has made an attempt runs under its own effective retry configuration
\* (its options.retry, else the one of the instance) with its own retryCount,
\* and whether it goes on, returns or throws, and what it returns or throws,
\* is determined by its own configuration, its own attempt count and the
\* answer to its own latest attempt, whatever the other call is doing.

\* the local variables of call r of request()
callState(r) ==
  <<rpc[r], optRetry[r], retryCount[r], lastError[r], attempts[r],
    lastResponse[r], only500[r], raised[r], retryConfig[r], delay[r],
    waited[r], body[r], n429[r], optHeaders[r], sentHeaders[r], inflight[r],
    lastErrorAt[r], raisedAt[r]>>
OwnOutcome(r) ==
  attempts[r] >= 1 =>
    /\ retryConfig[r] = getRetryConfig(optRetry[r])
    /\ attempts[r] <= retryConfig[r].maxRetries + 1
    /\ rpc[r] = "attempt" => retryCount[r] = attempts[r] - 1
    /\ rpc[r] = "delay" =>
         /\ isRetryableError(lastResponse[r])
         /\ retryCount[r] = attempts[r]
         /\ attempts[r] <= retryConfig[r].maxRetries
    /\ rpc[r] = "returned" =>
         /\ lastResponse[r] = Success
         /\ body[r] = attempts[r]
    /\ rpc[r] = "raised" =>
         /\ ~lastResponse[r].none /\ lastResponse[r] # Success
         /\ raised[r] = transformError(lastResponse[r])
         /\ isRetryableError(lastResponse[r]) =>
              attempts[r] = retryConfig[r].maxRetries + 1
====
